---- MODULE Spec2Model ----
(***************************************************************************)
(* Attendance analytics of the group-training dashboard (src/index.js),    *)
(* its requests to Zoezi, and its access control: login, admin key and     *)
(* embed tokens.                                                           *)
(*                                                                         *)
(* Conventions of the model                                                *)
(*   - A JavaScript string on which the code works character by character  *)
(*     (startTime, instructor names, formatted rates, date keys) is a      *)
(*     sequence of one-character strings; other strings are TLA+ strings.  *)
(*   - An optional property is a sequence of length 0 (absent/undefined)   *)
(*     or 1 (present).                                                     *)
(*   - Counts and totals are integers; a quotient, product or sum the code *)
(*     computes in floating point is an IEEE 754 double, held exactly.     *)
(***************************************************************************)
EXTENDS Integers, Sequences, FiniteSets, TLC

VARIABLES workouts, pc, result, given, previous, accumulators,
          request, response, lookups, fetches, collections,
          env, session, clock, issued, exchange

vars == <<workouts, pc, result, given, previous, accumulators,
          request, response, lookups, fetches, collections,
          env, session, clock, issued, exchange>>

\* What belongs to access control: the configured credentials, the session
\* of one browser, Date.now(), the embed tokens handed out, and the last
\* request with its answer.
accessVars == <<env, session, clock, issued, exchange>>

\* What belongs to the request around the aggregator.
handlerVars == <<request, response, lookups, fetches, collections>>

-----------------------------------------------------------------------------
(* Optional values and JavaScript truthiness                               *)

Absent == <<>>

Some(v) == <<v>>

IsPresent(o) == Len(o) > 0

\* `x || 0` for an optional number: undefined and 0 are both falsy.
OrZero(o) == IF IsPresent(o) /\ o[1] # 0 THEN o[1] ELSE 0

\* `x || ''` for an optional string of characters.
OrEmpty(o) == IF IsPresent(o) THEN o[1] ELSE <<>>

-----------------------------------------------------------------------------
(* Characters                                                              *)

DigitChars == <<"0", "1", "2", "3", "4", "5", "6", "7", "8", "9">>

IsDigit(c) == \E i \in 1..10 : DigitChars[i] = c

DigitVal(c) == (CHOOSE i \in 1..10 : DigitChars[i] = c) - 1

\* UTF-16 code units of the characters the inputs use.
CharCode(c) ==
  IF IsDigit(c) THEN 48 + DigitVal(c)
  ELSE CASE c = " " -> 32
         [] c = "-" -> 45
         [] c = "." -> 46
         [] c = ":" -> 58
         [] c = "A" -> 65
         [] c = "B" -> 66
         [] c = "T" -> 84
         [] c = "n" -> 110
         [] c = "o" -> 111
         [] OTHER -> 120

RECURSIVE Digits(_)
\* Decimal digits of a natural number (Number.prototype.toString).
Digits(n) == IF n < 10 THEN <<DigitChars[n + 1]>>
             ELSE Digits(n \div 10) \o <<DigitChars[(n % 10) + 1]>>

RECURSIVE DigitsValue(_)
\* Value of a non-empty sequence of digits.
DigitsValue(s) == IF Len(s) = 0 THEN 0
                  ELSE 10 * DigitsValue(SubSeq(s, 1, Len(s) - 1)) + DigitVal(s[Len(s)])

AllDigits(s) == \A i \in 1..Len(s) : IsDigit(s[i])

RECURSIVE LexLess(_, _)
\* a < b in the order of Array.prototype.sort() without comparator.
LexLess(a, b) ==
  IF Len(b) = 0 THEN FALSE
  ELSE IF Len(a) = 0 THEN TRUE
  ELSE IF CharCode(a[1]) # CharCode(b[1]) THEN CharCode(a[1]) < CharCode(b[1])
  ELSE LexLess(Tail(a), Tail(b))

RECURSIVE Trim(_)
\* String.prototype.trim for the whitespace the inputs use (spaces).
Trim(s) == IF Len(s) = 0 THEN s
           ELSE IF s[1] = " " THEN Trim(Tail(s))
           ELSE IF s[Len(s)] = " " THEN Trim(SubSeq(s, 1, Len(s) - 1))
           ELSE s

RECURSIVE SplitFirst(_)
\* s.split(' ')[0]: the characters before the first space, all of s if none.
SplitFirst(s) == IF Len(s) = 0 \/ s[1] = " " THEN <<>>
                 ELSE <<s[1]>> \o SplitFirst(Tail(s))

-----------------------------------------------------------------------------
(* new Date(string), getDay(), getHours()                                  *)

NaN == -1

IsLeap(y) == (y % 4 = 0 /\ y % 100 # 0) \/ y % 400 = 0

DaysInMonth(y, m) ==
  IF m = 2 THEN (IF IsLeap(y) THEN 29 ELSE 28)
  ELSE IF m \in {4, 6, 9, 11} THEN 30 ELSE 31

\* The date-time forms without a zone, which the engine reads as local time:
\* 'YYYY-MM-DD HH:MM:SS' and 'YYYY-MM-DDTHH:MM:SS'. Anything else the inputs
\* contain is an Invalid Date.
ParseDate(s) ==
  LET shape == /\ Len(s) = 19
               /\ AllDigits(SubSeq(s, 1, 4)) /\ s[5] = "-"
               /\ AllDigits(SubSeq(s, 6, 7)) /\ s[8] = "-"
               /\ AllDigits(SubSeq(s, 9, 10)) /\ s[11] \in {" ", "T"}
               /\ AllDigits(SubSeq(s, 12, 13)) /\ s[14] = ":"
               /\ AllDigits(SubSeq(s, 15, 16)) /\ s[17] = ":"
               /\ AllDigits(SubSeq(s, 18, 19))
      y == DigitsValue(SubSeq(s, 1, 4))
      m == DigitsValue(SubSeq(s, 6, 7))
      d == DigitsValue(SubSeq(s, 9, 10))
      h == DigitsValue(SubSeq(s, 12, 13))
      mi == DigitsValue(SubSeq(s, 15, 16))
      se == DigitsValue(SubSeq(s, 18, 19))
  IN IF shape /\ m \in 1..12 /\ d \in 1..DaysInMonth(y, m)
              /\ h \in 0..23 /\ mi \in 0..59 /\ se \in 0..59
     THEN [valid |-> TRUE, year |-> y, month |-> m, day |-> d, hours |-> h]
     ELSE [valid |-> FALSE, year |-> 0, month |-> 0, day |-> 0, hours |-> 0]

\* new Date(w.startTime): undefined gives an Invalid Date as well.
NewDate(o) == IF IsPresent(o) THEN ParseDate(o[1])
              ELSE [valid |-> FALSE, year |-> 0, month |-> 0, day |-> 0, hours |-> 0]

MonthOffset == <<0, 3, 2, 5, 0, 3, 5, 1, 4, 6, 2, 4>>

\* getDay read as a Monday-first index (0 = Monday .. 6 = Sunday).
GetDayMondayFirst(dt) ==
  IF ~dt.valid THEN NaN
  ELSE LET y == IF dt.month < 3 THEN dt.year - 1 ELSE dt.year
       IN (y + (y \div 4) - (y \div 100) + (y \div 400)
             + MonthOffset[dt.month] + dt.day + 6) % 7

\* Date.prototype.getDay: 0 = Sunday .. 6 = Saturday, NaN for an Invalid Date.
GetDay(dt) ==
  IF ~dt.valid THEN NaN
  ELSE LET y == IF dt.month < 3 THEN dt.year - 1 ELSE dt.year
       IN (y + (y \div 4) - (y \div 100) + (y \div 400)
             + MonthOffset[dt.month] + dt.day) % 7

\* Date.prototype.getHours: 0..23, NaN for an Invalid Date.
GetHours(dt) == IF dt.valid THEN dt.hours ELSE NaN

-----------------------------------------------------------------------------
(* Number.prototype.toFixed(1), parseFloat                                 *)

\* A JavaScript number is an IEEE 754 double. The finite non-negative ones
\* are held exactly: [m, e] is m * 2^e, where m is a natural number of
\* exactly 53 bits written as limbs of 15 bits, least significant first, and
\* zero has no limbs. Every operation computes the exact result and rounds
\* it to the nearest double, to the even one on a tie.
Limb == 2^15

RECURSIVE BitsOf(_)
\* The number of binary digits of n.
BitsOf(n) == IF n = 0 THEN 0 ELSE 1 + BitsOf(n \div 2)

LimbBits == BitsOf(Limb) - 1

\* The bits of a double's significand, the implicit one included.
Precision == 52 + 1

RECURSIVE BigOf(_)
\* The natural number n as limbs.
BigOf(n) == IF n = 0 THEN <<>> ELSE <<n % Limb>> \o BigOf(n \div Limb)

RECURSIVE NatOf(_)
\* The natural number the limbs a stand for.
NatOf(a) == IF Len(a) = 0 THEN 0 ELSE Head(a) + Limb * NatOf(Tail(a))

RECURSIVE Strip(_)
\* a without its most significant zero limbs.
Strip(a) ==
  IF Len(a) > 0 /\ a[Len(a)] = 0 THEN Strip(SubSeq(a, 1, Len(a) - 1)) ELSE a

BitLen(a) ==
  IF Len(a) = 0 THEN 0 ELSE LimbBits * (Len(a) - 1) + BitsOf(a[Len(a)])

RECURSIVE BigAddCarry(_, _, _)
BigAddCarry(a, b, c) ==
  IF Len(a) = 0 /\ Len(b) = 0 THEN BigOf(c)
  ELSE LET x == IF Len(a) = 0 THEN 0 ELSE Head(a)
           y == IF Len(b) = 0 THEN 0 ELSE Head(b)
           sum == x + y + c
       IN <<sum % Limb>>
            \o BigAddCarry(IF Len(a) = 0 THEN a ELSE Tail(a),
                           IF Len(b) = 0 THEN b ELSE Tail(b), sum \div Limb)

\* a + b
BigAdd(a, b) == BigAddCarry(a, b, 0)

RECURSIVE BigTimesCarry(_, _, _)
BigTimesCarry(a, k, c) ==
  IF Len(a) = 0 THEN BigOf(c)
  ELSE LET p == Head(a) * k + c
       IN <<p % Limb>> \o BigTimesCarry(Tail(a), k, p \div Limb)

\* a * k for 0 <= k <= Limb
BigTimes(a, k) == Strip(BigTimesCarry(a, k, 0))

RECURSIVE BigDivide(_, _, _)
\* Quotient and remainder of (r * Limb^Len(a) + a) by d, for r < d <= Limb.
BigDivide(a, d, r) ==
  IF Len(a) = 0 THEN [q |-> <<>>, r |-> r]
  ELSE LET cur == r * Limb + a[Len(a)]
           rest == BigDivide(SubSeq(a, 1, Len(a) - 1), d, cur % d)
       IN [q |-> Append(rest.q, cur \div d), r |-> rest.r]

\* a * 2^n
ShiftLeft(a, n) ==
  [i \in 1..(n \div LimbBits) |-> 0] \o BigTimes(a, 2^(n % LimbBits))

\* floor(a / 2^n), and whether bits were lost.
ShiftRight(a, n) ==
  LET w == IF n \div LimbBits < Len(a) THEN n \div LimbBits ELSE Len(a)
      low == SubSeq(a, 1, w)
      dv == BigDivide(SubSeq(a, w + 1, Len(a)), 2^(n % LimbBits), 0)
  IN IF n \div LimbBits >= Len(a)
     THEN [q |-> <<>>, inexact |-> \E i \in 1..Len(a) : a[i] # 0]
     ELSE [q |-> Strip(dv.q),
           inexact |-> dv.r # 0 \/ \E i \in 1..Len(low) : low[i] # 0]

DoubleZero == [m |-> <<>>, e |-> 0]

\* The double nearest to (a + x) * 2^e, where 0 < x < 1 if inexact and
\* x = 0 otherwise; an inexact a has more bits than a significand.
RoundToDouble(a, e, inexact) ==
  LET len == BitLen(a)
  IN IF len = 0 THEN DoubleZero
     ELSE IF len <= Precision
     THEN [m |-> ShiftLeft(a, Precision - len), e |-> e - (Precision - len)]
     ELSE LET drop == len - Precision
              kept == ShiftRight(a, drop - 1)
              half == kept.q[1] % 2 = 1
              down == ShiftRight(kept.q, 1).q
              up == half /\ (kept.inexact \/ inexact \/ down[1] % 2 = 1)
              m == IF up THEN BigAdd(down, <<1>>) ELSE down
          IN IF BitLen(m) > Precision
             THEN [m |-> ShiftRight(m, 1).q, e |-> e + drop + 1]
             ELSE [m |-> m, e |-> e + drop]

\* The number n, n a natural number.
Double(n) == RoundToDouble(BigOf(n), 0, FALSE)

\* x / d for a double x and a whole number 0 < d <= Limb
Divide(x, d) ==
  IF Len(x.m) = 0 THEN DoubleZero
  ELSE LET dv == BigDivide(<<0, 0>> \o x.m, d, 0)
       IN RoundToDouble(Strip(dv.q), x.e - 2 * LimbBits, dv.r # 0)

\* x * k for a double x and a whole number 0 <= k <= Limb
Times(x, k) ==
  IF Len(x.m) = 0 THEN DoubleZero ELSE RoundToDouble(BigTimes(x.m, k), x.e, FALSE)

\* x + y
Plus(x, y) ==
  IF Len(x.m) = 0 THEN y
  ELSE IF Len(y.m) = 0 THEN x
  ELSE LET e == IF x.e < y.e THEN x.e ELSE y.e
       IN RoundToDouble(BigAdd(ShiftLeft(x.m, x.e - e), ShiftLeft(y.m, y.e - e)),
                        e, FALSE)

\* toFixed(1) that cuts the digits after the first decimal off.
ToFixed1Truncated(x) ==
  LET tenths ==
        IF Len(x.m) = 0 THEN 0
        ELSE NatOf(ShiftRight(BigTimes(x.m, 10), 0 - x.e).q)
  IN [kind |-> "string",
      text |-> Digits(tenths \div 10) \o <<".">> \o Digits(tenths % 10)]

\* The number 0 the code emits when a denominator is 0.
Zero == [kind |-> "number", text |-> <<"0">>]

\* x.toFixed(1) for a double 0 <= x < 2^15: the tenth nearest to the exact
\* value of x, the larger one on a tie, as a string with exactly one digit
\* after the point.
ToFixed1(x) ==
  LET tenths ==
        IF Len(x.m) = 0 THEN 0
        ELSE NatOf(ShiftRight(BigAdd(BigTimes(x.m, 20), ShiftLeft(<<1>>, 0 - x.e)),
                              1 - x.e).q)
  IN [kind |-> "string",
      text |-> Digits(tenths \div 10) \o <<".">> \o Digits(tenths % 10)]

\* Rate without the guard: (0 / 0 * 100).toFixed(1) is the text 'NaN'.
RateUnguarded(num, den) ==
  IF den > 0 THEN ToFixed1(Times(Divide(Double(num), den), 100))
  ELSE [kind |-> "string", text |-> <<"N", "a", "N">>]

\* den > 0 ? (num / den * 100).toFixed(1) : 0
Rate(num, den) ==
  IF den > 0 THEN ToFixed1(Times(Divide(Double(num), den), 100)) ELSE Zero

\* count > 0 ? (total / count).toFixed(1) : 0
Average(total, count) ==
  IF count > 0 THEN ToFixed1(Divide(Double(total), count)) ELSE Zero

\* parseFloat of a rate, in tenths: of the number 0, or of the text 'i.f'.
ParseFloat(r) ==
  IF r.kind = "number" THEN 0
  ELSE LET t == r.text
           p == CHOOSE i \in 1..Len(t) : t[i] = "."
       IN 10 * DigitsValue(SubSeq(t, 1, p - 1)) + DigitsValue(SubSeq(t, p + 1, Len(t)))

-----------------------------------------------------------------------------
(* processAnalytics: the accumulators and the body of workouts.forEach     *)

\* Position of the entry called name in an insertion-ordered object, 0 if none.
IndexOfName(entries, name) ==
  IF \E i \in 1..Len(entries) : entries[i].name = name
  THEN CHOOSE i \in 1..Len(entries) : entries[i].name = name
  ELSE 0

\* w.workoutType?.name || 'Unknown'
TypeNameOf(w) ==
  IF IsPresent(w.workoutType) /\ IsPresent(w.workoutType[1].name)
     /\ w.workoutType[1].name[1] # ""
  THEN w.workoutType[1].name[1]
  ELSE "Unknown"

\* w.workoutType?.color || '#667eea'
TypeColorOf(w) ==
  IF IsPresent(w.workoutType) /\ IsPresent(w.workoutType[1].color)
     /\ w.workoutType[1].color[1] # ""
  THEN w.workoutType[1].color[1]
  ELSE "#667eea"

\* space > 0 ? (booked / space * 100) : 0
BookingRatio(booked, space) ==
  IF space > 0 THEN Times(Divide(Double(booked), space), 100) ELSE DoubleZero

\* booking.user_id || booking.userId || booking.user?.id
UserIdOf(booking) ==
  IF OrZero(booking.user_id) # 0 THEN booking.user_id[1]
  ELSE IF OrZero(booking.userId) # 0 THEN booking.userId[1]
  ELSE IF IsPresent(booking.user) THEN OrZero(booking.user[1].id)
  ELSE 0

\* UserIdsOf without the `if (userId)` test: a booking without ID adds one.
UserIdsOfKeepsFalsy(w) ==
  IF IsPresent(w.bookings)
  THEN {UserIdOf(w.bookings[1][i]) : i \in 1..Len(w.bookings[1])}
  ELSE {}

\* The user IDs a workout's bookings add to the sets (falsy IDs are skipped).
UserIdsOf(w) ==
  IF IsPresent(w.bookings)
  THEN {UserIdOf(w.bookings[1][i]) : i \in 1..Len(w.bookings[1])} \ {0}
  ELSE {}

\* `${staff.firstname || ''} ${staff.lastname || ''}`.trim() || 'Unknown'
UnknownName == <<"U", "n", "k", "n", "o", "w", "n">>

DisplayName(staff) ==
  LET full == Trim(OrEmpty(staff.firstname) \o <<" ">> \o OrEmpty(staff.lastname))
  IN IF Len(full) > 0 THEN full ELSE UnknownName

EmptyTotals == [classes |-> 0, totalBooked |-> 0, totalCapacity |-> 0]

AddTotals(t, booked, space) ==
  [t EXCEPT !.classes = @ + 1, !.totalBooked = @ + booked, !.totalCapacity = @ + space]

\* byType[typeName], created on first use, then updated.
AddToType(byType, w, typeName, booked, space) ==
  LET created == IF IndexOfName(byType, typeName) = 0
                 THEN Append(byType, [name |-> typeName, color |-> TypeColorOf(w),
                                      classes |-> 0, totalBooked |-> 0,
                                      totalCapacity |-> 0, bookings |-> <<>>])
                 ELSE byType
      i == IndexOfName(created, typeName)
  IN [created EXCEPT ![i] = [@ EXCEPT !.classes = @ + 1,
                                      !.totalBooked = @ + booked,
                                      !.totalCapacity = @ + space,
                                      !.bookings = Append(@, BookingRatio(booked, space))]]

\* One pass of w.staffs.forEach over the instructor buckets.
AddStaff(byInstructor, staff, booked, space) ==
  LET name == DisplayName(staff)
      created == IF IndexOfName(byInstructor, name) = 0
                 THEN Append(byInstructor, [name |-> name, classes |-> 0,
                                            totalBooked |-> 0, totalCapacity |-> 0,
                                            imagekey |-> staff.imagekey])
                 ELSE byInstructor
      i == IndexOfName(created, name)
  IN [created EXCEPT ![i] = [@ EXCEPT !.classes = @ + 1,
                                      !.totalBooked = @ + booked,
                                      !.totalCapacity = @ + space]]

RECURSIVE AddStaffs(_, _, _, _)
AddStaffs(byInstructor, staffs, booked, space) ==
  IF Len(staffs) = 0 THEN byInstructor
  ELSE AddStaffs(AddStaff(byInstructor, Head(staffs), booked, space),
                 Tail(staffs), booked, space)

\* A bucket of an object keyed by hour or by date string, created on first use.
\* AddToKey that starts every time from empty totals.
AddToKeyAfresh(buckets, key, booked, space) ==
  [k \in DOMAIN buckets \cup {key} |->
     IF k = key THEN AddTotals(EmptyTotals, booked, space) ELSE buckets[k]]

AddToKey(buckets, key, booked, space) ==
  LET old == IF key \in DOMAIN buckets THEN buckets[key] ELSE EmptyTotals
  IN [k \in DOMAIN buckets \cup {key} |->
        IF k = key THEN AddTotals(old, booked, space) ELSE buckets[k]]

\* The fully-booked test without `space > 0`.
IsFullyBookedAnyCapacity(space, booked) == booked >= space

\* if (space > 0 && booked >= space) fullyBookedClasses++
IsFullyBooked(space, booked) == space > 0 /\ booked >= space

\* if (booked === 0) emptyClasses++
IsEmptyClass(booked) == booked = 0

\* The accumulators as declared before the loop.
InitialAcc ==
  [threw |-> FALSE,
   byType |-> <<>>,
   byDayOfWeek |-> [i \in 1..7 |-> <<>>],
   byHour |-> <<>>,
   byInstructor |-> <<>>,
   byDate |-> <<>>,
   totalClasses |-> 0,
   totalBooked |-> 0,
   totalCapacity |-> 0,
   fullyBookedClasses |-> 0,
   emptyClasses |-> 0,
   allUniqueUsers |-> {},
   uniqueUsersByType |-> <<>>]

\* The body of workouts.forEach for one workout. It throws a TypeError at
\* w.startTime.split when startTime is undefined, and at
\* byDayOfWeek[dayOfWeek].push when dayOfWeek is NaN.
ForEachBody(acc, w) ==
  LET typeName == TypeNameOf(w)
      space == OrZero(w.space)
      booked == OrZero(w.numBooked)
      startTime == NewDate(w.startTime)
      dayOfWeek == GetDay(startTime)
      hour == GetHours(startTime)
      dateStr == SplitFirst(w.startTime[1])
      users == UserIdsOf(w)
      oldUsers == IF typeName \in DOMAIN acc.uniqueUsersByType
                  THEN acc.uniqueUsersByType[typeName] ELSE {}
  IN IF ~IsPresent(w.startTime) \/ dayOfWeek = NaN
     THEN [acc EXCEPT !.threw = TRUE]
     ELSE [acc EXCEPT
             !.totalClasses = @ + 1,
             !.totalBooked = @ + booked,
             !.totalCapacity = @ + space,
             !.fullyBookedClasses = IF IsFullyBooked(space, booked) THEN @ + 1 ELSE @,
             !.emptyClasses = IF IsEmptyClass(booked) THEN @ + 1 ELSE @,
             !.byType = AddToType(@, w, typeName, booked, space),
             !.allUniqueUsers = @ \cup users,
             !.uniqueUsersByType =
                [k \in DOMAIN @ \cup {typeName} |->
                   IF k = typeName THEN oldUsers \cup users ELSE @[k]],
             !.byDayOfWeek[dayOfWeek + 1] =
                Append(@, [booked |-> booked, capacity |-> space,
                           rate |-> BookingRatio(booked, space)]),
             !.byHour = AddToKey(@, hour, booked, space),
             !.byInstructor =
                IF IsPresent(w.staffs) /\ Len(w.staffs[1]) > 0
                THEN AddStaffs(@, w.staffs[1], booked, space) ELSE @,
             !.byDate = AddToKey(@, dateStr, booked, space)]

RECURSIVE ForEach(_, _)
\* workouts.forEach: an exception ends the loop (and the call).
ForEach(acc, ws) ==
  IF acc.threw \/ Len(ws) = 0 THEN acc
  ELSE ForEach(ForEachBody(acc, Head(ws)), Tail(ws))

-----------------------------------------------------------------------------
(* processAnalytics: averages, rates, ordering and the report              *)

RECURSIVE Reduce(_, _)
\* ratios.reduce((a, b) => a + b, a0): the sum taken from the left.
Reduce(ratios, a) ==
  IF Len(ratios) = 0 THEN a ELSE Reduce(Tail(ratios), Plus(a, Head(ratios)))

\* t.bookings.reduce((a, b) => a + b, 0)
SumRatios(ratios) == Reduce(ratios, DoubleZero)

\* avgBookingRate with the sum of the ratios left undivided.
AvgBookingRateUndivided(ratios) ==
  IF Len(ratios) > 0 THEN ToFixed1(SumRatios(ratios)) ELSE Zero

\* The mean of the per-class booking ratios, formatted; 0 for no class.
AvgBookingRate(ratios) ==
  IF Len(ratios) > 0 THEN ToFixed1(Divide(SumRatios(ratios), Len(ratios))) ELSE Zero

RECURSIVE InsertByRateAscending(_, _)
\* The comparator with a and b exchanged: ascending order.
InsertByRateAscending(sorted, e) ==
  IF Len(sorted) = 0 THEN <<e>>
  ELSE IF ParseFloat(e.attendanceRate) - ParseFloat(Head(sorted).attendanceRate) < 0
       THEN <<e>> \o sorted
       ELSE <<Head(sorted)>> \o InsertByRateAscending(Tail(sorted), e)

RECURSIVE InsertByRate(_, _)
\* Insert e behind every entry whose rate is not below e's (stable, descending).
InsertByRate(sorted, e) ==
  IF Len(sorted) = 0 THEN <<e>>
  ELSE IF ParseFloat(e.attendanceRate) - ParseFloat(Head(sorted).attendanceRate) > 0
       THEN <<e>> \o sorted
       ELSE <<Head(sorted)>> \o InsertByRate(Tail(sorted), e)

RECURSIVE SortByRate(_)
\* .sort((a, b) => parseFloat(b.attendanceRate) - parseFloat(a.attendanceRate))
SortByRate(entries) ==
  IF Len(entries) = 0 THEN <<>>
  ELSE InsertByRate(SortByRate(SubSeq(entries, 1, Len(entries) - 1)),
                    entries[Len(entries)])

RECURSIVE SortKeys(_)
\* Object.keys(byDate).sort(): the keys in ascending code-unit order.
SortKeys(keys) ==
  IF keys = {} THEN <<>>
  ELSE LET least == CHOOSE k \in keys : \A o \in keys \ {k} : LexLess(k, o)
       IN <<least>> \o SortKeys(keys \ {least})

RECURSIVE SumField(_, _)
\* data.reduce((sum, d) => sum + d.<field>, 0), field chosen by `booked`.
SumField(data, booked) ==
  IF Len(data) = 0 THEN 0
  ELSE (IF booked THEN Head(data).booked ELSE Head(data).capacity)
       + SumField(Tail(data), booked)

typeStats(acc) ==
  SortByRate([i \in 1..Len(acc.byType) |->
    LET t == acc.byType[i]
    IN [name |-> t.name, color |-> t.color, classes |-> t.classes,
        totalBooked |-> t.totalBooked, totalCapacity |-> t.totalCapacity,
        bookings |-> t.bookings,
        avgAttendance |-> Average(t.totalBooked, t.classes),
        attendanceRate |-> Rate(t.totalBooked, t.totalCapacity),
        avgBookingRate |-> AvgBookingRate(t.bookings),
        uniqueParticipants |->
          IF t.name \in DOMAIN acc.uniqueUsersByType
          THEN Cardinality(acc.uniqueUsersByType[t.name]) ELSE 0]])

dayNames ==
  <<"Sunday", "Monday", "Tuesday", "Wednesday", "Thursday", "Friday", "Saturday">>

dayStats(acc) ==
  [i \in 1..Len(dayNames) |->
    LET data == acc.byDayOfWeek[i]
        totalBooked == SumField(data, TRUE)
        totalCapacity == SumField(data, FALSE)
    IN [day |-> dayNames[i], dayIndex |-> i - 1, classes |-> Len(data),
        avgAttendance |-> Average(totalBooked, Len(data)),
        attendanceRate |-> Rate(totalBooked, totalCapacity)]]

FirstHour == 5

\* The loop bound with `h < 22` for `h <= 22`.
LastHourExclusive == 22 - 1

LastHour == 22

hourStats(acc) ==
  [i \in 1..(LastHour - FirstHour + 1) |->
    LET h == FirstHour + i - 1
        data == IF h \in DOMAIN acc.byHour THEN acc.byHour[h] ELSE EmptyTotals
    IN [hour |-> h, label |-> ToString(h) \o ":00", classes |-> data.classes,
        avgAttendance |-> Average(data.totalBooked, data.classes),
        attendanceRate |-> Rate(data.totalBooked, data.totalCapacity)]]

instructorStats(acc) ==
  SortByRate([i \in 1..Len(acc.byInstructor) |->
    LET e == acc.byInstructor[i]
    IN [name |-> e.name, classes |-> e.classes, totalBooked |-> e.totalBooked,
        totalCapacity |-> e.totalCapacity, imagekey |-> e.imagekey,
        avgAttendance |-> Average(e.totalBooked, e.classes),
        attendanceRate |-> Rate(e.totalBooked, e.totalCapacity)]])

dailyTrend(acc) ==
  LET dates == SortKeys(DOMAIN acc.byDate)
  IN [i \in 1..Len(dates) |->
       LET data == acc.byDate[dates[i]]
       IN [date |-> dates[i], classes |-> data.classes,
           totalBooked |-> data.totalBooked, totalCapacity |-> data.totalCapacity,
           attendanceRate |-> Rate(data.totalBooked, data.totalCapacity)]]

\* summaryOf with the capacity total read from the wrong accumulator.
summaryOfBookedAsCapacity(acc) ==
  [totalClasses |-> acc.totalClasses,
   totalBooked |-> acc.totalBooked,
   totalCapacity |-> acc.totalBooked,
   overallAttendanceRate |-> Rate(acc.totalBooked, acc.totalCapacity),
   avgPerClass |-> Average(acc.totalBooked, acc.totalClasses),
   fullyBookedClasses |-> acc.fullyBookedClasses,
   fullyBookedRate |-> Rate(acc.fullyBookedClasses, acc.totalClasses),
   emptyClasses |-> acc.emptyClasses,
   emptyRate |-> Rate(acc.emptyClasses, acc.totalClasses),
   uniqueParticipants |-> Cardinality(acc.allUniqueUsers)]

summaryOf(acc) ==
  [totalClasses |-> acc.totalClasses,
   totalBooked |-> acc.totalBooked,
   totalCapacity |-> acc.totalCapacity,
   overallAttendanceRate |-> Rate(acc.totalBooked, acc.totalCapacity),
   avgPerClass |-> Average(acc.totalBooked, acc.totalClasses),
   fullyBookedClasses |-> acc.fullyBookedClasses,
   fullyBookedRate |-> Rate(acc.fullyBookedClasses, acc.totalClasses),
   emptyClasses |-> acc.emptyClasses,
   emptyRate |-> Rate(acc.emptyClasses, acc.totalClasses),
   uniqueParticipants |-> Cardinality(acc.allUniqueUsers)]

\* What a call that threw leaves behind: no report.
Thrown == [threw |-> TRUE]

\* The accumulators kept from one call to the next.
DeclareOnce(left) == left

\* const byType = {}; ... let totalClasses = 0; ...: the accumulators are
\* locals of processAnalytics, so every call starts from new ones, whatever
\* the call before left in its own.
Declare(left) == InitialAcc

\* The accumulators at the end of the loop of a call.
Accumulate(left, ws) == ForEach(Declare(left), ws)

\* The forEach callback with the defaults written back into the record.
WorkoutsAfterDefaultsWritten(ws) ==
  [i \in 1..Len(ws) |->
     [ws[i] EXCEPT !.space = Some(OrZero(@)), !.numBooked = Some(OrZero(@))]]

\* The input as a call leaves it: the callback reads w and its staffs and
\* bookings and assigns to none of them.
WorkoutsAfter(ws) == ws

\* return { summary, byType, byDay, byHour, byInstructor, dailyTrend }, or
\* the exception of the loop.
ReportOf(acc) ==
  IF acc.threw THEN Thrown
  ELSE [threw |-> FALSE,
        summary |-> summaryOf(acc),
        byType |-> typeStats(acc),
        byDay |-> dayStats(acc),
        byHour |-> hourStats(acc),
        byInstructor |-> instructorStats(acc),
        dailyTrend |-> dailyTrend(acc)]

\* processAnalytics(workouts): the report, or the exception of the loop.
processAnalytics(ws) == ReportOf(Accumulate(InitialAcc, ws))

-----------------------------------------------------------------------------
(* The workouts a request can hand to processAnalytics                     *)

MaxWorkouts == 2

MaxSpace == 2

MaxBooked == 2

MaxUser == 2

Workout(type, space, booked, start, staffs, bookings) ==
  [workoutType |-> type, space |-> space, numBooked |-> booked,
   startTime |-> start, staffs |-> staffs, bookings |-> bookings]

Yoga == Some([name |-> Some("Yoga"), color |-> Some("#22c55e")])

Spin == Some([name |-> Some("Spin"), color |-> Absent])

Nameless == Some([name |-> Absent, color |-> Absent])

TwoDigits(n) == <<DigitChars[(n \div 10) + 1], DigitChars[(n % 10) + 1]>>

\* A start time in January 2024, with ' ' (Zoezi's form) or 'T' (ISO) between
\* date and time. 2024-01-14 is a Sunday, 2024-01-15 a Monday.
StartTime(sep, day, hour) ==
  <<"2", "0", "2", "4", "-", "0", "1", "-">> \o TwoDigits(day) \o <<sep>>
     \o TwoDigits(hour) \o <<":", "0", "0", ":", "0", "0">>

DateText(day) == <<"2", "0", "2", "4", "-", "0", "1", "-">> \o TwoDigits(day)

Monday18 == Some(StartTime(" ", 15, 18))

\* A string no date can be read from.
Unparsable == <<"n", "o", "o", "n">>

Days == {14, 15}

Hours == {4, 5, 22, 23}

StartTimes ==
  {Some(StartTime(" ", d, h)) : d \in Days, h \in Hours}
    \cup {Some(StartTime("T", 15, h)) : h \in {5, 22}}
    \cup {Some(Unparsable), Absent}

Staff(first, last) == [firstname |-> first, lastname |-> last, imagekey |-> Absent]

Anna == Staff(Some(<<"A", "n">>), Some(<<"A">>))

Bo == Staff(Some(<<"B", "o">>), Absent)

NoName == Staff(Absent, Some(<<>>))

StaffLists ==
  {Absent, Some(<<>>), Some(<<Anna>>), Some(<<Bo>>), Some(<<Anna, Bo>>),
   Some(<<NoName>>), Some(<<NoName, NoName>>), Some(<<Bo, Anna, Bo>>)}

Booking(user_id, userId, user) == [user_id |-> user_id, userId |-> userId, user |-> user]

Bookings ==
  {Booking(Some(u), Absent, Absent) : u \in 1..MaxUser}
    \cup {Booking(Absent, Some(1), Some([id |-> Some(2)])),
          Booking(Absent, Absent, Some([id |-> Some(2)])),
          Booking(Absent, Absent, Absent)}

BookingLists ==
  {Absent, Some(<<>>)}
    \cup {Some(<<b>>) : b \in Bookings}
    \cup {Some(<<Booking(Some(1), Absent, Absent), b>>) : b \in Bookings}

\* Classes that differ in type, capacity and number booked.
CountWorkouts ==
  {Workout(Yoga, Some(s), Some(b), Monday18, Absent, Absent) :
     s \in {0, 1, MaxSpace}, b \in 0..MaxBooked}
    \cup {Workout(Spin, Some(MaxSpace), Some(b), Monday18, Absent, Absent) :
            b \in {0, MaxBooked}}

\* Classes with properties left out.
SparseWorkouts ==
  {Workout(Absent, Absent, Absent, Monday18, Absent, Absent),
   Workout(Nameless, Some(MaxSpace), Absent, Monday18, Absent, Absent),
   Workout(Absent, Absent, Some(MaxBooked), Monday18, Absent, Absent),
   Workout(Yoga, Some(MaxSpace), Some(1), Absent, Absent, Absent),
   Workout(Yoga, Some(MaxSpace), Some(1), Monday18, Some(<<Anna>>), Some(<<>>))}

\* Classes that differ in start time.
TimedWorkouts ==
  {Workout(Yoga, Some(MaxSpace), Some(MaxBooked), st, Absent, Absent) :
     st \in StartTimes}
    \cup {Workout(Yoga, Some(MaxSpace), Some(0), Monday18, Absent, Absent)}

\* Classes that differ in instructors.
StaffedWorkouts ==
  {Workout(Yoga, Some(MaxSpace), Some(MaxBooked), Monday18, st, Absent) :
     st \in StaffLists}
    \cup {Workout(Yoga, Some(MaxSpace), Some(1), Monday18, st, Absent) :
            st \in {Some(<<Anna>>), Some(<<Bo>>), Some(<<Anna, Bo>>)}}

\* Classes that differ in the participants booked.
BookedWorkouts ==
  {Workout(Yoga, Some(MaxSpace), Some(1), Monday18, Absent, bl) :
     bl \in BookingLists}
    \cup {Workout(Spin, Some(MaxSpace), Some(1), Monday18, Absent,
                  Some(<<Booking(Some(u), Absent, Absent)>>)) : u \in {1, MaxUser}}

\* The classes of the report's documented scenarios: 8 of 12, 10 of 10,
\* 0 of 10, 0 of 5; and one with 23 of 80, a rate of exactly 28.75.
ScenarioWorkouts ==
  {Workout(Yoga, Some(12), Some(8), Monday18, Absent, Absent),
   Workout(Yoga, Some(80), Some(23), Monday18, Absent, Absent),
   Workout(Spin, Some(10), Some(10), Monday18, Absent, Absent),
   Workout(Spin, Some(10), Some(0), Monday18, Absent, Absent),
   Workout(Spin, Some(5), Some(0), Monday18, Absent, Absent)}

Families ==
  {CountWorkouts, SparseWorkouts, TimedWorkouts, StaffedWorkouts, BookedWorkouts,
   ScenarioWorkouts}

\* Three classes of one type, with 1 of 3, 7 of 15 and 7 of 16 booked: their
\* booking ratios average exactly 41.25.
HalfwayWorkouts ==
  <<Workout(Yoga, Some(3), Some(1), Monday18, Absent, Absent),
    Workout(Yoga, Some(15), Some(7), Monday18, Absent, Absent),
    Workout(Yoga, Some(16), Some(7), Monday18, Absent, Absent)>>

\* The sequence ws in the order p.
Permuted(ws, p) == [i \in 1..Len(ws) |-> ws[p[i]]]

\* Every sequence of at most MaxWorkouts classes of one family, and the
\* three halfway classes in every order.
Inputs ==
  UNION {UNION {[1..n -> f] : n \in 0..MaxWorkouts} : f \in Families}
    \cup {Permuted(HalfwayWorkouts, p) : p \in Permutations(1..Len(HalfwayWorkouts))}

-----------------------------------------------------------------------------
(* Embed tokens: generateEmbedToken, verifyEmbedToken                      *)

\* Date.now() is a count of milliseconds too large for one machine integer:
\* times are held as limbs, like the significand of a double.
BigLess(a, b) ==
  LET x == Strip(a)
      y == Strip(b)
  IN IF Len(x) # Len(y) THEN Len(x) < Len(y)
     ELSE \E i \in 1..Len(x) :
            x[i] < y[i] /\ \A j \in (i + 1)..Len(x) : x[j] = y[j]

RECURSIVE BigOfDigits(_)
\* The number written by the decimal digits s, four digits at a time.
BigOfDigits(s) ==
  IF Len(s) <= 4 THEN BigOf(DigitsValue(s))
  ELSE Strip(BigAdd(BigTimes(BigOfDigits(SubSeq(s, 1, Len(s) - 4)), 10000),
                    BigOf(DigitsValue(SubSeq(s, Len(s) - 3, Len(s))))))

RECURSIVE BigDigits(_)
\* The decimal digits of a, four digits at a time.
BigDigits(a) ==
  IF Len(Strip(a)) <= 1 THEN Digits(NatOf(Strip(a)))
  ELSE LET d == BigDivide(Strip(a), 10000, 0)
       IN BigDigits(d.q) \o TwoDigits(d.r \div 100) \o TwoDigits(d.r % 100)

\* Number.prototype.toString() of a non-negative integer
NumberToString(a) == BigDigits(a)

RECURSIVE LeadingDigits(_)
LeadingDigits(s) ==
  IF Len(s) > 0 /\ IsDigit(Head(s)) THEN <<Head(s)>> \o LeadingDigits(Tail(s))
  ELSE <<>>

\* parseInt(s) of a string that starts with neither white space nor a sign
\* nor 0x: the number its leading digits write, NaN (Absent) without one.
ParseInt(s) ==
  IF Len(LeadingDigits(s)) = 0 THEN Absent
  ELSE Some(BigOfDigits(LeadingDigits(s)))

\* The characters whose code CharCode knows, and String.fromCharCode on the
\* codes of these; any other byte is shown as "?".
KnownChars ==
  {DigitChars[i] : i \in 1..10} \cup {" ", "-", ".", ":", "A", "B", "T", "n", "o", "x"}

\* The same with the digits as the only characters known.
FromCharCodeDigits(b) ==
  IF b \in 48..57 THEN DigitChars[b - 47] ELSE "?"

FromCharCode(b) ==
  IF \E c \in KnownChars : CharCode(c) = b
  THEN CHOOSE c \in KnownChars : CharCode(c) = b
  ELSE "?"

\* Buffer.from(string) and buffer.toString() on these characters
Bytes(s) == [i \in 1..Len(s) |-> CharCode(s[i])]

BytesToString(b) == [i \in 1..Len(b) |-> FromCharCode(b[i])]

Base64Alphabet ==
  <<"A", "B", "C", "D", "E", "F", "G", "H", "I", "J", "K", "L", "M",
    "N", "O", "P", "Q", "R", "S", "T", "U", "V", "W", "X", "Y", "Z",
    "a", "b", "c", "d", "e", "f", "g", "h", "i", "j", "k", "l", "m",
    "n", "o", "p", "q", "r", "s", "t", "u", "v", "w", "x", "y", "z",
    "0", "1", "2", "3", "4", "5", "6", "7", "8", "9", "-", "_">>

Base64Index(c) == (CHOOSE i \in 1..Len(Base64Alphabet) : Base64Alphabet[i] = c) - 1

RECURSIVE Base64UrlEncode(_)
\* buffer.toString('base64url'): three bytes give four characters, a rest of
\* one or two bytes gives two or three, and there is no padding.
Base64UrlEncode(b) ==
  IF Len(b) = 0 THEN <<>>
  ELSE IF Len(b) = 1
  THEN <<Base64Alphabet[b[1] \div 4 + 1], Base64Alphabet[(b[1] % 4) * 16 + 1]>>
  ELSE IF Len(b) = 2
  THEN <<Base64Alphabet[b[1] \div 4 + 1],
         Base64Alphabet[(b[1] % 4) * 16 + b[2] \div 16 + 1],
         Base64Alphabet[(b[2] % 16) * 4 + 1]>>
  ELSE <<Base64Alphabet[b[1] \div 4 + 1],
         Base64Alphabet[(b[1] % 4) * 16 + b[2] \div 16 + 1],
         Base64Alphabet[(b[2] % 16) * 4 + b[3] \div 64 + 1],
         Base64Alphabet[(b[3] % 64) + 1]>>
         \o Base64UrlEncode(SubSeq(b, 4, Len(b)))

RECURSIVE Base64UrlDecode(_)
\* Buffer.from(s, 'base64url') of characters of the alphabet: four characters
\* give three bytes, a rest of two or three gives one or two, and the bits
\* left over are dropped.
Base64UrlDecode(s) ==
  IF Len(s) < 2 THEN <<>>
  ELSE LET i1 == Base64Index(s[1])
           i2 == Base64Index(s[2])
           b1 == i1 * 4 + i2 \div 16
       IN IF Len(s) = 2 THEN <<b1>>
          ELSE LET i3 == Base64Index(s[3])
                   b2 == (i2 % 16) * 16 + i3 \div 4
               IN IF Len(s) = 3 THEN <<b1, b2>>
                  ELSE <<b1, b2, (i3 % 4) * 64 + Base64Index(s[4])>>
                         \o Base64UrlDecode(SubSeq(s, 5, Len(s)))

\* The bytes of a SHA-256 digest.
DigestBytes == 32

\* crypto.createHmac('sha256', key).update(data).digest(): HMAC is taken to
\* be free of collisions. The digest is the key, a zero byte and the data,
\* filled with zero bytes to the digest's length; it determines key and data
\* as long as they fit, which they do within the bounds.
Hmac(key, data) ==
  LET all == Bytes(key) \o <<0>> \o Bytes(data)
  IN [i \in 1..DigestBytes |-> IF i <= Len(all) THEN all[i] ELSE 0]

\* `${clubId}.${timestamp}`
Payload(clubId, timestamp) == clubId \o <<".">> \o timestamp

SignatureOf(secret, payload) == Base64UrlEncode(Hmac(secret, payload))

\* generateEmbedToken(clubId) at the time now with EMBED_SECRET = secret:
\* Absent when it throws.
generateEmbedToken(secret, clubId, now) ==
  IF Len(secret) = 0 THEN Absent
  ELSE LET timestamp == NumberToString(now)
           signature == SignatureOf(secret, Payload(clubId, timestamp))
       IN Some(Base64UrlEncode(Bytes(clubId)) \o <<".">>
                 \o Base64UrlEncode(Bytes(timestamp)) \o <<".">> \o signature)

RECURSIVE Split(_)
\* s.split('.')
Split(s) ==
  IF \A i \in 1..Len(s) : s[i] # "." THEN <<s>>
  ELSE LET k == CHOOSE i \in 1..Len(s) :
                  s[i] = "." /\ \A j \in 1..(i - 1) : s[j] # "."
       IN <<SubSeq(s, 1, k - 1)>> \o Split(SubSeq(s, k + 1, Len(s)))

\* const maxAge = 365 * 24 * 60 * 60 * 1000
maxAge == BigTimes(BigTimes(BigOf(365 * 24), 60 * 60), 1000)

\* A value of a query parameter: a string, or the array express makes of a
\* parameter given more than once.
Text(s) == Some([type |-> "string", text |-> s])

Repeated(s) == Some([type |-> "array", text |-> s])

\* !value
Falsy(q) == q = Absent \/ (q[1].type = "string" /\ Len(q[1].text) = 0)

Invalid(error) == [threw |-> FALSE, valid |-> FALSE, clubId |-> <<>>, error |-> error]

Valid(clubId) == [threw |-> FALSE, valid |-> TRUE, clubId |-> clubId, error |-> ""]

\* token.split is not a function
TypeError == [threw |-> TRUE, valid |-> FALSE, clubId |-> <<>>, error |-> "TypeError"]

\* tokenAge > maxAge, for tokenAge = Date.now() - parseInt(timestamp); a
\* comparison with NaN is false.
Expired(timestamp, now) ==
  /\ IsPresent(ParseInt(timestamp))
  /\ BigLess(BigAdd(ParseInt(timestamp)[1], maxAge), now)

\* verifyEmbedToken(token) at the time now with EMBED_SECRET = secret
verifyEmbedToken(secret, token, now) ==
  IF Len(secret) = 0 THEN Invalid("EMBED_SECRET not configured")
  ELSE IF Falsy(token) THEN Invalid("No token provided")
  ELSE IF token[1].type # "string" THEN TypeError
  ELSE LET parts == Split(token[1].text)
       IN IF Len(parts) # 3 THEN Invalid("Invalid token format")
          ELSE LET clubId == BytesToString(Base64UrlDecode(parts[1]))
                   timestamp == BytesToString(Base64UrlDecode(parts[2]))
                   expectedSignature == SignatureOf(secret, Payload(clubId, timestamp))
               IN IF Len(parts[3]) # Len(expectedSignature)
                  THEN Invalid("Token decode failed")
                  ELSE IF parts[3] # expectedSignature
                  THEN Invalid("Invalid signature")
                  ELSE IF Expired(timestamp, now) THEN Invalid("Token expired")
                  ELSE Valid(clubId)

-----------------------------------------------------------------------------
(* Credentials, sessions and time                                          *)

\* process.env.X || '': a credential that is not configured is ''.
Configured ==
  [SUPABASE_KEY |-> <<"x">>, EMBED_SECRET |-> <<"B">>,
   ADMIN_KEY |-> <<"T">>, ADMIN_PASSWORD |-> <<"n", "o">>]

Environments ==
  [SUPABASE_KEY : {<<>>, Configured.SUPABASE_KEY},
   EMBED_SECRET : {<<>>, Configured.EMBED_SECRET},
   ADMIN_KEY : {<<>>, Configured.ADMIN_KEY},
   ADMIN_PASSWORD : {<<>>, Configured.ADMIN_PASSWORD}]

\* req.session of a browser that has not logged in, or whose session was
\* destroyed: isAdmin is undefined.
NoSession == [isAdmin |-> Absent]

AdminSession == [isAdmin |-> Some(TRUE)]

\* Date.now() when the server starts, and the moments at which requests
\* arrive: then, 365 days later, and a millisecond after that.
Epoch == BigOfDigits(<<"1", "7", "0", "0", "0", "0", "0", "0", "0", "0", "0", "0", "0">>)

Moments ==
  {Epoch, BigAdd(Epoch, maxAge), BigAdd(BigAdd(Epoch, maxAge), BigOf(1))}

-----------------------------------------------------------------------------
(* fetchZoeziApi and the requests that use it                              *)

\* async function fetchZoeziApi(url, apiKey, maxRetries = 3)
maxRetries == 3

RetryDelayMs == 2000

\* The backoff without the factor attempt.
BackoffFixed(attempt) == RetryDelayMs + 0 * attempt

\* setTimeout(r, attempt * 2000)
BackoffMs(attempt) == attempt * RetryDelayMs

\* The four URLs of Promise.all, in its order: workouts, sites, training
\* card types, training cards.
Upstreams == 1..4

Primary == 1

Secondaries == Upstreams \ {Primary}

Event(what, n) == [event |-> what, n |-> n]

\* A call of fetchZoeziApi: not made, an attempt in flight, waiting for the
\* timer, returned or thrown; attempt is the loop variable, log what the
\* call did so far, value what it returned.
NotCalled == [state |-> "idle", attempt |-> 0, log |-> <<>>, value |-> Absent]

\* A call whose first attempt succeeded.
FetchedAtOnce ==
  [state |-> "returned", attempt |-> 1,
   log |-> <<Event("attempt", 1), Event("returned", 1)>>, value |-> Absent]

\* fetchZoeziApi(url, key): the loop is entered and fetch(url) is under way.
Called == [state |-> "inflight", attempt |-> 1,
           log |-> <<Event("attempt", 1)>>, value |-> Absent]

\* A secondary fetch without .catch(() => []).
HasCatchNever(i) == FALSE

\* fetchZoeziApi(sitesUrl, ...).catch(() => []), and the two after it.
HasCatch(i) == i \in Secondaries

\* The promise handed to Promise.all for upstream i: pending, fulfilled or
\* rejected.
Promised(i) ==
  IF fetches[i].state = "returned" THEN "fulfilled"
  ELSE IF fetches[i].state = "threw"
       THEN (IF HasCatch(i) THEN "fulfilled" ELSE "rejected")
       ELSE "pending"

\* The handler goes on when the workouts alone are there.
PrimaryFulfilled == Promised(Primary) = "fulfilled"

\* Promise.all fulfils when every promise of the array is fulfilled.
AllFulfilled == \A i \in Upstreams : Promised(i) = "fulfilled"

\* The test that lets a request with one of the two dates through.
DatesBothMissing(r) == r.fromDate \in {Absent, Some(<<>>)} /\ r.toDate \in {Absent, Some(<<>>)}

\* !fromDate || !toDate: undefined and '' are falsy.
DatesMissing(r) == r.fromDate \in {Absent, Some(<<>>)} \/ r.toDate \in {Absent, Some(<<>>)}

Routes == {"schedule", "analytics", "embed"}

DateParams == {Absent, Some(<<>>), Some(DateText(15))}

\* authorized: req.session.isAdmin on the session routes, a token that
\* verifyEmbedToken accepts on the embed route.
Requests ==
  [route : Routes, authorized : BOOLEAN, fromDate : DateParams, toDate : DateParams]

AnalyticsRequest ==
  [route |-> "analytics", authorized |-> TRUE,
   fromDate |-> Some(DateText(14)), toDate |-> Some(DateText(15))]

\* What Zoezi can answer to the workout request: no class, one class, one
\* class without startTime.
Answers ==
  {<<>>,
   <<Workout(Yoga, Some(12), Some(8), Monday18, Absent, Absent)>>,
   <<Workout(Yoga, Some(12), Some(8), Absent, Absent, Absent)>>}

\* res.status(status).json(...)
Responded(status, body) == Some([status |-> status, body |-> body])

HandlerInit ==
  /\ request \in Requests
  /\ pc = "received"
  /\ response = Absent
  /\ lookups = 0
  /\ fetches = [i \in Upstreams |-> NotCalled]
  /\ collections = [i \in Secondaries |-> "unset"]
  /\ workouts = <<>>
  /\ given = <<>>
  /\ result = Absent
  /\ previous = Absent
  /\ accumulators = InitialAcc
  /\ env = Configured
  /\ session = NoSession
  /\ clock = Epoch
  /\ issued = {}
  /\ exchange = Absent

aggregatorVars == <<workouts, given, result, previous, accumulators>>

\* isAuthenticated, the middleware of the schedule and analytics routes.
IsAuthenticated ==
  /\ pc = "received"
  /\ request.route \in {"schedule", "analytics"}
  /\ IF request.authorized
     THEN pc' = "authorized" /\ UNCHANGED response
     ELSE pc' = "responded" /\ response' = Responded(401, "error")
  /\ UNCHANGED <<request, lookups, fetches, collections>>
  /\ UNCHANGED aggregatorVars
  /\ UNCHANGED accessVars

\* verifyEmbedToken(token) at the head of the embed route.
VerifyToken ==
  /\ pc = "received"
  /\ request.route = "embed"
  /\ IF request.authorized
     THEN pc' = "authorized" /\ UNCHANGED response
     ELSE pc' = "responded" /\ response' = Responded(401, "error")
  /\ UNCHANGED <<request, lookups, fetches, collections>>
  /\ UNCHANGED aggregatorVars
  /\ UNCHANGED accessVars

\* if (!fromDate || !toDate) return res.status(400)...; otherwise the club is
\* looked up in Supabase.
CheckDates ==
  /\ pc = "authorized"
  /\ IF DatesMissing(request)
     THEN pc' = "responded" /\ response' = Responded(400, "error") /\ UNCHANGED lookups
     ELSE pc' = "lookup" /\ lookups' = lookups + 1 /\ UNCHANGED response
  /\ UNCHANGED <<request, fetches, collections>>
  /\ UNCHANGED aggregatorVars
  /\ UNCHANGED accessVars

\* The lookup returns an error, no club, or the club; with the club the
\* handler calls fetchZoeziApi: once on the schedule route, four times, for
\* the array of Promise.all, on the analytics routes.
Lookup ==
  /\ pc = "lookup"
  /\ \E found \in {"error", "none", "club"} :
       IF found = "club"
       THEN /\ pc' = "fetching"
            /\ fetches' = [i \in Upstreams |->
                             IF request.route = "schedule" /\ i # Primary
                             THEN NotCalled ELSE Called]
            /\ UNCHANGED response
       ELSE /\ pc' = "responded"
            /\ response' = Responded(IF found = "none" THEN 404 ELSE 500, "error")
            /\ UNCHANGED fetches
  /\ UNCHANGED <<request, lookups, collections>>
  /\ UNCHANGED aggregatorVars
  /\ UNCHANGED accessVars

\* fetch resolves with an ok response and response.json() with the data:
\* the call returns.
AttemptSucceeds(i) ==
  /\ fetches[i].state = "inflight"
  /\ \E data \in (IF i = Primary THEN Answers ELSE {<<"item">>}) :
       fetches' = [fetches EXCEPT ![i] =
                     [state |-> "returned", attempt |-> @.attempt,
                      log |-> Append(@.log, Event("returned", @.attempt)),
                      value |-> Some(data)]]
  /\ UNCHANGED <<pc, request, response, lookups, collections>>
  /\ UNCHANGED aggregatorVars
  /\ UNCHANGED accessVars

\* fetch rejects, the response is not ok, or json() fails: the catch block
\* throws on the last attempt and otherwise sets the timer.
AttemptFails(i) ==
  /\ fetches[i].state = "inflight"
  /\ fetches' = [fetches EXCEPT ![i] =
       IF @.attempt = maxRetries
       THEN [@ EXCEPT !.state = "threw",
                      !.log = @ \o <<Event("failed", fetches[i].attempt),
                                     Event("threw", fetches[i].attempt)>>]
       ELSE [@ EXCEPT !.state = "waiting",
                      !.log = @ \o <<Event("failed", fetches[i].attempt),
                                     Event("wait", BackoffMs(fetches[i].attempt))>>]]
  /\ UNCHANGED <<pc, request, response, lookups, collections>>
  /\ UNCHANGED aggregatorVars
  /\ UNCHANGED accessVars

\* The timer fires: attempt++ and the next fetch.
TimerFires(i) ==
  /\ fetches[i].state = "waiting"
  /\ fetches' = [fetches EXCEPT ![i] =
       [@ EXCEPT !.state = "inflight", !.attempt = @ + 1,
                 !.log = Append(@, Event("attempt", fetches[i].attempt + 1))]]
  /\ UNCHANGED <<pc, request, response, lookups, collections>>
  /\ UNCHANGED aggregatorVars
  /\ UNCHANGED accessVars

\* Schedule route: const workouts = await fetchZoeziApi(...); res.json(workouts),
\* or the catch block when the call threw.
ScheduleResumes ==
  /\ pc = "fetching"
  /\ request.route = "schedule"
  /\ fetches[Primary].state \in {"returned", "threw"}
  /\ response' = IF fetches[Primary].state = "returned"
                 THEN Responded(200, "workouts") ELSE Responded(500, "error")
  /\ pc' = "responded"
  /\ UNCHANGED <<request, lookups, fetches, collections>>
  /\ UNCHANGED aggregatorVars
  /\ UNCHANGED accessVars

\* Analytics routes: Promise.all fulfils and the handler has workouts, sites,
\* trainingCardTypes and trainingCards, a caught failure as [].
PromiseAllFulfils ==
  /\ pc = "fetching"
  /\ request.route # "schedule"
  /\ AllFulfilled
  /\ workouts' = OrEmpty(fetches[Primary].value)
  /\ given' = workouts'
  /\ collections' = [i \in Secondaries |->
                       IF fetches[i].state = "returned" THEN "fetched" ELSE "empty"]
  /\ pc' = "fetched"
  /\ UNCHANGED <<request, response, lookups, fetches>>
  /\ UNCHANGED <<result, previous, accumulators>>
  /\ UNCHANGED accessVars

\* Analytics routes: Promise.all rejects with the first rejection and the
\* catch block answers; calls still under way go on unobserved.
PromiseAllRejects ==
  /\ pc = "fetching"
  /\ request.route # "schedule"
  /\ \E i \in Upstreams : Promised(i) = "rejected"
  /\ response' = Responded(500, "error")
  /\ pc' = "responded"
  /\ UNCHANGED <<request, lookups, fetches, collections>>
  /\ UNCHANGED aggregatorVars
  /\ UNCHANGED accessVars

\* res.json(analytics), or the catch block when processAnalytics threw.
Respond ==
  /\ pc = "done"
  /\ response' = IF result[1].threw THEN Responded(500, "error")
                 ELSE Responded(200, "report")
  /\ pc' = "responded"
  /\ UNCHANGED <<request, lookups, fetches, collections>>
  /\ UNCHANGED aggregatorVars
  /\ UNCHANGED accessVars

-----------------------------------------------------------------------------
(* The calls of processAnalytics on the fetched workouts                   *)

\* given is a copy of the input taken before the first call; previous is the
\* outcome of the call before the last one; accumulators are the locals of
\* the last call.
Init ==
  /\ workouts \in Inputs
  /\ given = workouts
  /\ pc = "fetched"
  /\ result = Absent
  /\ previous = Absent
  /\ accumulators = InitialAcc
  /\ request = AnalyticsRequest
  /\ response = Absent
  /\ lookups = 1
  /\ fetches = [i \in Upstreams |-> FetchedAtOnce]
  /\ collections = [i \in Secondaries |-> "fetched"]
  /\ env = Configured
  /\ session = NoSession
  /\ clock = Epoch
  /\ issued = {}
  /\ exchange = Absent

\* const analytics = processAnalytics(workouts)
Analyze ==
  /\ pc = "fetched"
  /\ accumulators' = Accumulate(accumulators, workouts)
  /\ result' = Some(ReportOf(accumulators'))
  /\ workouts' = WorkoutsAfter(workouts)
  /\ pc' = "done"
  /\ UNCHANGED <<given, previous>>
  /\ UNCHANGED handlerVars
  /\ UNCHANGED accessVars

\* A second call, on the same sequence.
AnalyzeAgain ==
  /\ pc = "done"
  /\ accumulators' = Accumulate(accumulators, workouts)
  /\ result' = Some(ReportOf(accumulators'))
  /\ workouts' = WorkoutsAfter(workouts)
  /\ previous' = result
  /\ pc' = "again"
  /\ UNCHANGED given
  /\ UNCHANGED handlerVars
  /\ UNCHANGED accessVars

\* A second call, on the copy taken before the first.
AnalyzeCopy ==
  /\ pc = "done"
  /\ accumulators' = Accumulate(accumulators, given)
  /\ result' = Some(ReportOf(accumulators'))
  /\ previous' = result
  /\ pc' = "again"
  /\ UNCHANGED <<workouts, given>>
  /\ UNCHANGED handlerVars
  /\ UNCHANGED accessVars

Next == Analyze \/ AnalyzeAgain \/ AnalyzeCopy

Spec == Init /\ [][Next]_vars

\* One request from its arrival to the response, and the calls of
\* fetchZoeziApi it started to their end.
HandlerNext ==
  \/ IsAuthenticated
  \/ VerifyToken
  \/ CheckDates
  \/ Lookup
  \/ \E i \in Upstreams : AttemptSucceeds(i)
  \/ \E i \in Upstreams : AttemptFails(i)
  \/ \E i \in Upstreams : TimerFires(i)
  \/ ScheduleResumes
  \/ PromiseAllFulfils
  \/ PromiseAllRejects
  \/ Analyze
  \/ Respond

HandlerSpec == HandlerInit /\ [][HandlerNext]_vars

\* A step of the call of fetchZoeziApi for upstream i.
CallStep(i) == AttemptSucceeds(i) \/ AttemptFails(i) \/ TimerFires(i)

\* No call stands still for ever: an attempt under way ends (the HTTP client
\* gives up on a request that gets no answer) and a timer that was set fires.
FairHandlerSpec == HandlerSpec /\ \A i \in Upstreams : WF_vars(CallStep(i))

-----------------------------------------------------------------------------
(* The routes: login, logout, the protected, admin and embed routes        *)

\* The clubs of the Clubs table.
ClubIds == {<<"7">>, <<"7", ".", "x">>}

\* A club that is not in the table.
NoClub == <<"8">>

\* At most this many embed tokens are handed out.
MaxIssued == 2

\* What a request carries: the token, adminKey and clubId parameters of the
\* query (clubId is the path parameter or the body's on the routes that
\* have one), the X-Admin-Key header, the password of the body, and whether
\* fromDate and toDate are both given.
Req(token, header, adminKey, password, clubId, dates) ==
  [token |-> token, header |-> header, adminKey |-> adminKey,
   password |-> password, clubId |-> clubId, dates |-> dates]

\* A request with none of these.
Plain == Req(Absent, Absent, Absent, Absent, Absent, TRUE)

\* What the handler did: the status and what was sent (status 0: nothing
\* was sent, the handler's promise was rejected), the club looked up in
\* Supabase ("*": the whole table), the club whose Zoezi API was called, and
\* the club whose data was sent.
Res(status, sent, lookup, fetched, data) ==
  [status |-> status, sent |-> sent, lookup |-> lookup, fetched |-> fetched,
   data |-> data]

Sent(status, sent) == Res(status, sent, Absent, Absent, Absent)

Redirect(location) == Sent(302, location)

AllClubs == <<"*">>

\* What Supabase and Zoezi can do to a request.
Outcomes ==
  {[db |-> "ok", zoezi |-> "ok"], [db |-> "ok", zoezi |-> "error"],
   [db |-> "error", zoezi |-> "ok"]}

\* getSupabase() throws without SUPABASE_KEY; the query then finds the club,
\* finds none, or fails.
Found(e, clubId, o) ==
  Len(e.SUPABASE_KEY) > 0 /\ o.db = "ok" /\ clubId \in ClubIds

\* isAuthenticated passes the request on.
isAuthenticated(s) == s.isAdmin = Some(TRUE)

\* GET /api/gyms
Gyms(e, s, o) ==
  IF ~isAuthenticated(s) THEN Sent(401, "error")
  ELSE IF Len(e.SUPABASE_KEY) = 0 \/ o.db = "error"
  THEN Sent(500, "error")
  ELSE Res(200, "json", Some(AllClubs), Absent, Some(AllClubs))

\* GET /api/schedule/:clubId and GET /api/analytics/:clubId, up to the
\* answer: what lies between the lookup and the answer is the matter of
\* the sections above.
ClubData(e, s, r, o) ==
  IF ~isAuthenticated(s) THEN Sent(401, "error")
  ELSE IF ~r.dates THEN Sent(400, "error")
  ELSE IF Len(e.SUPABASE_KEY) = 0 THEN Sent(500, "error")
  ELSE IF o.db = "error" THEN Res(500, "error", r.clubId, Absent, Absent)
  ELSE IF r.clubId[1] \notin ClubIds THEN Res(404, "error", r.clubId, Absent, Absent)
  ELSE IF o.zoezi = "error" THEN Res(500, "error", r.clubId, r.clubId, Absent)
  ELSE Res(200, "json", r.clubId, r.clubId, r.clubId)

\* hasValidEmbedToken(req): "throws" when verifyEmbedToken throws.
hasValidEmbedToken(e, r, now) ==
  IF Falsy(r.token) THEN "no"
  ELSE LET tokenResult == verifyEmbedToken(e.EMBED_SECRET, r.token, now)
       IN IF tokenResult.threw THEN "throws"
          ELSE IF tokenResult.valid THEN "yes" ELSE "no"

Paths == {"/", "/dashboard", "/logo.png"}

\* GET / and GET *: a thrown error is answered by express with 500.
Page(e, s, path, r, now) ==
  IF path = "/logo.png" THEN Sent(200, "file")
  ELSE IF hasValidEmbedToken(e, r, now) = "throws" THEN Sent(500, "error")
  ELSE IF hasValidEmbedToken(e, r, now) = "yes" THEN Sent(200, "index.html")
  ELSE IF s.isAdmin = Some(TRUE) THEN Sent(200, "index.html")
  ELSE Redirect("/login")

\* GET /login
LoginPage(s) ==
  IF s.isAdmin = Some(TRUE) THEN Redirect("/") ELSE Sent(200, "login.html")

\* Buffer.from(password || ''): the bytes of a string, the bytes an array
\* lists; a number makes it throw.
PasswordBytes(p) == IF Falsy(p) THEN <<>> ELSE Bytes(p[1].text)

\* The length test alone.
PasswordAcceptedByLength(e, p) ==
  Len(PasswordBytes(p)) = Len(Bytes(e.ADMIN_PASSWORD))

\* passwordBuffer.length === adminBuffer.length &&
\* crypto.timingSafeEqual(passwordBuffer, adminBuffer)
PasswordAccepted(e, p) ==
  /\ Len(PasswordBytes(p)) = Len(Bytes(e.ADMIN_PASSWORD))
  /\ PasswordBytes(p) = Bytes(e.ADMIN_PASSWORD)

\* POST /login
Login(e, r) ==
  IF Len(e.ADMIN_PASSWORD) = 0 THEN Redirect("/login?error=1")
  ELSE IF ~Falsy(r.password) /\ r.password[1].type = "number"
  THEN Sent(500, "error")
  ELSE IF PasswordAccepted(e, r.password) THEN Redirect("/")
  ELSE Redirect("/login?error=1")

\* requireAdminKey: the answer it sends, Absent when it calls next().
requireAdminKey(e, r) ==
  LET apiKey == IF ~Falsy(r.header) THEN r.header ELSE r.adminKey
  IN IF Len(e.ADMIN_KEY) = 0 THEN Some(Sent(500, "error"))
     ELSE IF Falsy(apiKey) \/ apiKey # Text(e.ADMIN_KEY)
     THEN Some(Sent(401, "error"))
     ELSE Absent

\* POST /api/admin/embed-token: the answer, and the token handed out.
EmbedToken(e, r, o, now) ==
  LET token == generateEmbedToken(e.EMBED_SECRET, r.clubId[1], now)
  IN IF IsPresent(requireAdminKey(e, r))
     THEN [res |-> requireAdminKey(e, r)[1], tokens |-> {}]
     ELSE IF Falsy(Text(OrEmpty(r.clubId)))
     THEN [res |-> Sent(400, "error"), tokens |-> {}]
     ELSE IF Len(e.SUPABASE_KEY) = 0
     THEN [res |-> Sent(500, "error"), tokens |-> {}]
     ELSE IF ~Found(e, r.clubId[1], o)
     THEN [res |-> Res(404, "error", r.clubId, Absent, Absent), tokens |-> {}]
     ELSE IF ~IsPresent(token)
     THEN [res |-> Res(500, "error", r.clubId, Absent, Absent), tokens |-> {}]
     ELSE [res |-> Res(200, "json", r.clubId, Absent, Absent),
           tokens |-> {[token |-> token[1], clubId |-> r.clubId[1], at |-> now]}]

\* GET /api/admin/embed-tokens
EmbedTokens(e, r, o, now) ==
  IF IsPresent(requireAdminKey(e, r))
  THEN [res |-> requireAdminKey(e, r)[1], tokens |-> {}]
  ELSE IF Len(e.SUPABASE_KEY) = 0 \/ o.db = "error"
  THEN [res |-> Sent(500, "error"), tokens |-> {}]
  ELSE IF Len(e.EMBED_SECRET) = 0
  THEN [res |-> Res(500, "error", Some(AllClubs), Absent, Absent), tokens |-> {}]
  ELSE [res |-> Res(200, "json", Some(AllClubs), Absent, Absent),
        tokens |-> {[token |-> generateEmbedToken(e.EMBED_SECRET, c, now)[1],
                     clubId |-> c, at |-> now] : c \in ClubIds}]

\* GET /api/verify-token: an async handler with verifyEmbedToken outside
\* any try; when it throws, nothing is sent.
VerifyTokenRoute(e, r, o, now) ==
  LET verified == verifyEmbedToken(e.EMBED_SECRET, r.token, now)
  IN IF verified.threw THEN Sent(0, "nothing")
     ELSE IF ~verified.valid THEN Sent(401, "error")
     ELSE IF Len(e.SUPABASE_KEY) = 0 THEN Sent(200, "json")
     ELSE Res(200, "json", Some(verified.clubId), Absent, Absent)

\* const clubId = tokenResult.clubId
EmbedClub(tokenResult, r) == tokenResult.clubId

\* GET /api/embed/analytics, up to the answer.
EmbedAnalytics(e, r, o, now) ==
  LET tokenResult == verifyEmbedToken(e.EMBED_SECRET, r.token, now)
      clubId == EmbedClub(tokenResult, r)
  IN IF tokenResult.threw THEN Sent(500, "error")
     ELSE IF ~tokenResult.valid THEN Sent(401, "error")
     ELSE IF ~r.dates THEN Sent(400, "error")
     ELSE IF Len(e.SUPABASE_KEY) = 0 THEN Sent(500, "error")
     ELSE IF o.db = "error" THEN Res(500, "error", Some(clubId), Absent, Absent)
     ELSE IF clubId \notin ClubIds THEN Res(404, "error", Some(clubId), Absent, Absent)
     ELSE IF o.zoezi = "error" THEN Res(500, "error", Some(clubId), Some(clubId), Absent)
     ELSE Res(200, "json", Some(clubId), Some(clubId), Some(clubId))

\* The tokens a client can send that holds the tokens handed out so far but
\* not the secret: none, an empty one, a repeated parameter, strings of one,
\* two, three and four parts, a token signed with a key of its own, and for
\* every token handed out the token itself, the token without the last
\* character of its signature, and its signature under every club ID and
\* timestamp part.
OwnKey == <<"A">>

Encoded(s) == Base64UrlEncode(Bytes(s))

Dotted(parts) == parts[1] \o <<".">> \o parts[2] \o <<".">> \o parts[3]

\* The ways to read a payload as a club ID, a '.', and a timestamp.
Readings(payload) ==
  {<<SubSeq(payload, 1, k - 1), SubSeq(payload, k + 1, Len(payload))>> :
     k \in {i \in 1..Len(payload) : payload[i] = "."}}

OldTimestamp == <<"1">>

Resigned(t) ==
  LET signature == Split(t.token)[3]
      at == NumberToString(t.at)
  IN {Dotted(<<Encoded(p[1]), Encoded(p[2]), signature>>) :
        p \in Readings(Payload(t.clubId, at))
              \cup {<<c, at>> : c \in ClubIds \cup {NoClub}}
              \cup {<<t.clubId, OldTimestamp>>}}

Candidates(known, now) ==
  {Absent, Text(<<>>), Repeated(<<"A">>), Text(<<"A">>), Text(<<"A", ".", "A">>),
   Text(<<"A", ".", "A", ".", "A">>), Text(<<"A", ".", "A", ".", "A", ".", "A">>)}
    \cup {Text(generateEmbedToken(OwnKey, c, now)[1]) : c \in ClubIds}
    \cup {Text(t.token) : t \in known}
    \cup {Text(SubSeq(t.token, 1, Len(t.token) - 1)) : t \in known}
    \cup {Text(f) : f \in UNION {Resigned(t) : t \in known}}

Keys == {Absent, Text(Configured.ADMIN_KEY), Text(<<"A">>)}

QueryKeys == {Absent, Text(Configured.ADMIN_KEY)}

\* A number in a JSON body.
Number(s) == Some([type |-> "number", text |-> s])

\* The passwords of a body: none, the right one as a string and as the
\* array of its bytes, wrong ones of the same and of another length, an
\* empty one, a number.
Passwords ==
  {Absent, Text(Configured.ADMIN_PASSWORD), Repeated(Configured.ADMIN_PASSWORD),
   Text(<<"o", "n">>), Text(<<"n">>), Text(<<>>), Number(<<"5">>)}

ClubParams == {Some(c) : c \in ClubIds \cup {NoClub}}

\* A request handled by a route. The server is taken to handle the requests
\* of the session one after the other, and time to pass between them.
Exchange(route, r, res) == Some([route |-> route, req |-> r, res |-> res])

AccessInit ==
  /\ env \in Environments
  /\ session = NoSession
  /\ clock = Epoch
  /\ issued = {}
  /\ exchange = Absent
  /\ request = AnalyticsRequest
  /\ pc = "idle"
  /\ response = Absent
  /\ lookups = 0
  /\ fetches = [i \in Upstreams |-> NotCalled]
  /\ collections = [i \in Secondaries |-> "unset"]
  /\ workouts = <<>>
  /\ given = <<>>
  /\ result = Absent
  /\ previous = Absent
  /\ accumulators = InitialAcc

analyticsVars == <<workouts, pc, result, given, previous, accumulators,
                   request, response, lookups, fetches, collections>>

\* Time passes.
Tick ==
  /\ exchange = Absent
  /\ \E later \in Moments : BigLess(clock, later) /\ clock' = later
  /\ UNCHANGED <<env, session, issued, exchange>>
  /\ UNCHANGED analyticsVars

GetGyms ==
  /\ exchange = Absent
  /\ \E o \in Outcomes : exchange' = Exchange("/api/gyms", Plain, Gyms(env, session, o))
  /\ UNCHANGED <<env, session, clock, issued>>
  /\ UNCHANGED analyticsVars

GetClubData ==
  /\ exchange = Absent
  /\ \E route \in {"/api/schedule/:clubId", "/api/analytics/:clubId"},
        clubId \in ClubParams, dates \in BOOLEAN, o \in Outcomes :
       LET r == Req(Absent, Absent, Absent, Absent, clubId, dates)
       IN exchange' = Exchange(route, r, ClubData(env, session, r, o))
  /\ UNCHANGED <<env, session, clock, issued>>
  /\ UNCHANGED analyticsVars

GetPage ==
  /\ exchange = Absent
  /\ \E path \in Paths, token \in Candidates(issued, clock) :
       LET r == Req(token, Absent, Absent, Absent, Absent, TRUE)
       IN exchange' = Exchange(path, r, Page(env, session, path, r, clock))
  /\ UNCHANGED <<env, session, clock, issued>>
  /\ UNCHANGED analyticsVars

GetLogin ==
  /\ exchange = Absent
  /\ exchange' = Exchange("GET /login", Plain, LoginPage(session))
  /\ UNCHANGED <<env, session, clock, issued>>
  /\ UNCHANGED analyticsVars

\* req.session.isAdmin = true goes with the redirect to '/'.
PostLogin ==
  /\ exchange = Absent
  /\ \E password \in Passwords :
       LET r == Req(Absent, Absent, Absent, password, Absent, TRUE)
       IN /\ exchange' = Exchange("POST /login", r, Login(env, r))
          /\ session' = IF Login(env, r) = Redirect("/") THEN AdminSession ELSE session
  /\ UNCHANGED <<env, clock, issued>>
  /\ UNCHANGED analyticsVars

\* POST /logout and GET /logout: req.session.destroy
Logout ==
  /\ exchange = Absent
  /\ exchange' = Exchange("/logout", Plain, Redirect("/login"))
  /\ session' = NoSession
  /\ UNCHANGED <<env, clock, issued>>
  /\ UNCHANGED analyticsVars

PostEmbedToken ==
  /\ exchange = Absent
  /\ Cardinality(issued) < MaxIssued
  /\ \E header \in Keys, adminKey \in QueryKeys, clubId \in ClubParams \cup {Absent},
        o \in Outcomes :
       LET r == Req(Absent, header, adminKey, Absent, clubId, TRUE)
           done == EmbedToken(env, r, o, clock)
       IN /\ exchange' = Exchange("/api/admin/embed-token", r, done.res)
          /\ issued' = issued \cup done.tokens
  /\ UNCHANGED <<env, session, clock>>
  /\ UNCHANGED analyticsVars

GetEmbedTokens ==
  /\ exchange = Absent
  /\ Cardinality(issued) + Cardinality(ClubIds) <= MaxIssued
  /\ \E header \in Keys, adminKey \in QueryKeys, o \in Outcomes :
       LET r == Req(Absent, header, adminKey, Absent, Absent, TRUE)
           done == EmbedTokens(env, r, o, clock)
       IN /\ exchange' = Exchange("/api/admin/embed-tokens", r, done.res)
          /\ issued' = issued \cup done.tokens
  /\ UNCHANGED <<env, session, clock>>
  /\ UNCHANGED analyticsVars

GetVerifyToken ==
  /\ exchange = Absent
  /\ \E token \in Candidates(issued, clock), o \in Outcomes :
       LET r == Req(token, Absent, Absent, Absent, Absent, TRUE)
       IN exchange' = Exchange("/api/verify-token", r,
                               VerifyTokenRoute(env, r, o, clock))
  /\ UNCHANGED <<env, session, clock, issued>>
  /\ UNCHANGED analyticsVars

GetEmbedAnalytics ==
  /\ exchange = Absent
  /\ \E token \in Candidates(issued, clock), clubId \in {Absent, Some(<<"7">>)},
        dates \in BOOLEAN, o \in Outcomes :
       LET r == Req(token, Absent, Absent, Absent, clubId, dates)
       IN exchange' = Exchange("/api/embed/analytics", r,
                               EmbedAnalytics(env, r, o, clock))
  /\ UNCHANGED <<env, session, clock, issued>>
  /\ UNCHANGED analyticsVars

\* The answer has gone out.
EndExchange ==
  /\ exchange # Absent
  /\ exchange' = Absent
  /\ UNCHANGED <<env, session, clock, issued>>
  /\ UNCHANGED analyticsVars

AccessNext ==
  \/ Tick
  \/ EndExchange
  \/ GetGyms
  \/ GetClubData
  \/ GetPage
  \/ GetLogin
  \/ PostLogin
  \/ Logout
  \/ PostEmbedToken
  \/ GetEmbedTokens
  \/ GetVerifyToken
  \/ GetEmbedAnalytics

AccessSpec == AccessInit /\ [][AccessNext]_vars

-----------------------------------------------------------------------------
\* The call returned a report (it did not throw).
Returned == pc = "done" /\ ~result[1].threw

report == result[1]

TypeOK ==
  /\ pc \in {"fetched", "done", "again"}
  /\ pc = "done" => Len(result) = 1
  /\ pc = "again" => Len(result) = 1 /\ Len(previous) = 1

-----------------------------------------------------------------------------
(* What the properties below read off the input, without the aggregator    *)

RECURSIVE SumFn(_, _)
\* The sum of f over the finite set S of arguments.
SumFn(f, S) == IF S = {} THEN 0
               ELSE LET x == CHOOSE x \in S : TRUE IN f[x] + SumFn(f, S \ {x})

Sessions == 1..Len(workouts)

\* bookedCount and capacity of session i, an absent property counted as 0.
BookedCount == [i \in Sessions |->
                  IF workouts[i].numBooked = Absent THEN 0 ELSE workouts[i].numBooked[1]]

Capacity == [i \in Sessions |->
               IF workouts[i].space = Absent THEN 0 ELSE workouts[i].space[1]]

\* Every startTime is a string a date can be read from: 19 characters,
\* 'YYYY-MM-DD', a separator, 'HH:MM:SS' (the inputs are all in January 2024).
Parseable(i) == workouts[i].startTime # Absent /\ Len(workouts[i].startTime[1]) = 19

\* The calendar date, the day of the month and the hour written in startTime.
WrittenDate(i) == SubSeq(workouts[i].startTime[1], 1, 10)

WrittenDay(i) == DigitsValue(SubSeq(workouts[i].startTime[1], 9, 10))

WrittenHour(i) == DigitsValue(SubSeq(workouts[i].startTime[1], 12, 13))

\* In January 2024 the 7th, 14th, 21st and 28th are Sundays.
Weekday(i) == WrittenDay(i) % 7

\* r is the number 0, or the text of a finite non-negative number with
\* exactly one digit after the point.
IsZeroNumber(r) == r.kind = "number" /\ r.text = <<"0">>

IsOneDecimalText(r) ==
  /\ r.kind = "string"
  /\ Len(r.text) >= 3
  /\ r.text[Len(r.text) - 1] = "."
  /\ \A k \in 1..Len(r.text) : k # Len(r.text) - 1 => IsDigit(r.text[k])

\* A rate field as it has to be for denominator den.
RateOK(r, den) == IF den = 0 THEN IsZeroNumber(r) ELSE IsOneDecimalText(r)

-----------------------------------------------------------------------------
(* Properties of processAnalytics                                          *)

\* C1: processAnalytics never raises when properties of a record are
\* absent (no workoutType, space, numBooked, staffs, bookings or startTime):
\* for every input whose startTime values are absent or parseable the call
\* returns a report.
C1_NeverRaisesOnAbsentFields ==
  (pc = "done" /\ \A i \in Sessions : workouts[i].startTime = Absent \/ Parseable(i))
    => ~result[1].threw

\* C2: a startTime that is present but unparsable does not make
\* processAnalytics throw: for every input whose startTime values are all
\* present strings the call returns a report.
C2_NeverRaisesOnUnparsableStartTime ==
  (pc = "done" /\ \A i \in Sessions : workouts[i].startTime # Absent)
    => ~result[1].threw

\* C3: summary.totalClasses is the number of sessions, summary.totalBooked the
\* sum of numBooked and summary.totalCapacity the sum of space, an absent
\* numBooked or space counted as 0.
C3_SummaryTotals ==
  Returned =>
    /\ report.summary.totalClasses = Len(workouts)
    /\ report.summary.totalBooked = SumFn(BookedCount, Sessions)
    /\ report.summary.totalCapacity = SumFn(Capacity, Sessions)

\* C3 witness: a report over two sessions, one without numBooked and one
\* without space, whose totals are positive.
C3_Witness ==
  /\ Returned
  /\ Len(workouts) = 2
  /\ \E i \in Sessions : workouts[i].numBooked = Absent
  /\ \E i \in Sessions : workouts[i].space = Absent
  /\ report.summary.totalBooked > 0
  /\ report.summary.totalCapacity > 0

\* C4: every rate and average field of the report is the number 0 when its
\* denominator is 0 and otherwise the text of a finite non-negative number;
\* none is NaN or Infinity.
C4_RatesDefined ==
  Returned =>
    LET capacityOn(S) == SumFn(Capacity, S)
        onDay(d) == {i \in Sessions : Weekday(i) = d}
        atHour(h) == {i \in Sessions : WrittenHour(i) = h}
    IN /\ RateOK(report.summary.overallAttendanceRate, capacityOn(Sessions))
       /\ RateOK(report.summary.avgPerClass, Len(workouts))
       /\ RateOK(report.summary.fullyBookedRate, Len(workouts))
       /\ RateOK(report.summary.emptyRate, Len(workouts))
       /\ \A k \in 1..Len(report.byType) :
            LET e == report.byType[k]
            IN /\ RateOK(e.attendanceRate, e.totalCapacity)
               /\ RateOK(e.avgAttendance, e.classes)
               /\ RateOK(e.avgBookingRate, Len(e.bookings))
       /\ \A k \in 1..Len(report.byDay) :
            LET e == report.byDay[k]
            IN /\ RateOK(e.attendanceRate, capacityOn(onDay(e.dayIndex)))
               /\ RateOK(e.avgAttendance, Cardinality(onDay(e.dayIndex)))
       /\ \A k \in 1..Len(report.byHour) :
            LET e == report.byHour[k]
            IN /\ RateOK(e.attendanceRate, capacityOn(atHour(e.hour)))
               /\ RateOK(e.avgAttendance, Cardinality(atHour(e.hour)))
       /\ \A k \in 1..Len(report.byInstructor) :
            LET e == report.byInstructor[k]
            IN /\ RateOK(e.attendanceRate, e.totalCapacity)
               /\ RateOK(e.avgAttendance, e.classes)
       /\ \A k \in 1..Len(report.dailyTrend) :
            RateOK(report.dailyTrend[k].attendanceRate,
                   report.dailyTrend[k].totalCapacity)

\* C4 witness: a report over two sessions that both have capacity 0: the
\* attendance rates have denominator 0 and are the number 0 while the average
\* per class is text.
C4_Witness ==
  /\ Returned
  /\ Len(workouts) = 2
  /\ report.summary.totalCapacity = 0
  /\ IsZeroNumber(report.summary.overallAttendanceRate)
  /\ IsOneDecimalText(report.summary.avgPerClass)
  /\ Len(report.byType) = 1
  /\ IsZeroNumber(report.byType[1].attendanceRate)
  /\ IsZeroNumber(report.dailyTrend[1].attendanceRate)

\* C5: byDay has exactly 7 entries, dayIndex 0..6 in the order
\* Sunday..Saturday, and the entry of weekday d counts the sessions whose
\* startTime falls on weekday d (also for the empty input).
C5_ByDaySevenEntries ==
  Returned =>
    /\ Len(report.byDay) = 7
    /\ \A d \in 0..6 :
         /\ report.byDay[d + 1].dayIndex = d
         /\ report.byDay[d + 1].classes = Cardinality({i \in Sessions : Weekday(i) = d})
    /\ [d \in 1..7 |-> report.byDay[d].day]
         = <<"Sunday", "Monday", "Tuesday", "Wednesday", "Thursday", "Friday", "Saturday">>

\* C5 witness: a report over one session on Sunday 2024-01-14 and one on Monday
\* 2024-01-15, counted in the first and the second entry.
C5_Witness ==
  /\ Returned
  /\ \E i, j \in Sessions : WrittenDate(i) = DateText(14) /\ WrittenDate(j) = DateText(15)
  /\ report.byDay[1].classes = 1
  /\ report.byDay[2].classes = 1
  /\ report.byDay[3].classes = 0

\* C6: byHour has exactly 18 entries, one per hour 5..22 in ascending order,
\* and an hour in which no session starts reports classes 0, avgAttendance 0
\* and attendanceRate 0 (also for the empty input).
C6_ByHourEighteenEntries ==
  Returned =>
    /\ Len(report.byHour) = 18
    /\ \A k \in 1..18 :
         LET e == report.byHour[k]
         IN /\ e.hour = 4 + k
            /\ (~\E i \in Sessions : WrittenHour(i) = e.hour)
                 => /\ e.classes = 0
                    /\ IsZeroNumber(e.avgAttendance)
                    /\ IsZeroNumber(e.attendanceRate)

\* C6 witness: a report over a session starting at 22:00 and one at 23:00; the
\* last entry is the one of hour 22, every other entry is empty.
C6_Witness ==
  /\ Returned
  /\ \E i, j \in Sessions : WrittenHour(i) = 22 /\ WrittenHour(j) = 23
  /\ report.byHour[18].hour = 22
  /\ report.byHour[18].classes = 1
  /\ \A k \in 1..17 : report.byHour[k].classes = 0

\* C7: dailyTrend has exactly one entry per distinct calendar date among the
\* startTime values, in both forms 'YYYY-MM-DD HH:MM:SS' and ISO, in strictly
\* ascending date order, and each entry's classes, totalBooked and
\* totalCapacity are the count and the sums over the sessions of its date.
C7_DailyTrendPerCalendarDate ==
  Returned =>
    LET dates == {WrittenDate(i) : i \in Sessions}
        trend == report.dailyTrend
    IN /\ Len(trend) = Cardinality(dates)
       /\ {trend[k].date : k \in 1..Len(trend)} = dates
       /\ \A k \in 1..(Len(trend) - 1) : LexLess(trend[k].date, trend[k + 1].date)
       /\ \A k \in 1..Len(trend) :
            LET on == {i \in Sessions : WrittenDate(i) = trend[k].date}
            IN /\ trend[k].classes = Cardinality(on)
               /\ trend[k].totalBooked = SumFn(BookedCount, on)
               /\ trend[k].totalCapacity = SumFn(Capacity, on)

\* The display names of the instructors of session i.
InstructorNames(i) ==
  IF workouts[i].staffs = Absent THEN {}
  ELSE {DisplayName(workouts[i].staffs[1][j]) : j \in 1..Len(workouts[i].staffs[1])}

\* C8: byInstructor has an entry for exactly the display names that occur;
\* the entry of name n counts the sessions whose instructor list contains n,
\* each session once, and sums the full numBooked and space of those sessions;
\* a session without instructors contributes to no entry.
C8_InstructorCountsSessionsOnce ==
  Returned =>
    LET entries == report.byInstructor
    IN /\ {entries[k].name : k \in 1..Len(entries)}
            = UNION {InstructorNames(i) : i \in Sessions}
       /\ \A k \in 1..Len(entries) :
            LET of == {i \in Sessions : entries[k].name \in InstructorNames(i)}
            IN /\ entries[k].classes = Cardinality(of)
               /\ entries[k].totalBooked = SumFn(BookedCount, of)
               /\ entries[k].totalCapacity = SumFn(Capacity, of)

RECURSIVE ProdFn(_, _)
\* The product of f over the finite set S of arguments.
ProdFn(f, S) == IF S = {} THEN 1
                ELSE LET x == CHOOSE x \in S : TRUE IN f[x] * ProdFn(f, S \ {x})

\* The type a session is grouped under: its type's name, "Unknown" without one.
TypeLabel(i) ==
  IF workouts[i].workoutType = Absent THEN "Unknown"
  ELSE IF workouts[i].workoutType[1].name = Absent THEN "Unknown"
  ELSE workouts[i].workoutType[1].name[1]

OfType(name) == {i \in Sessions : TypeLabel(i) = name}

\* The text r is n/d rounded to one decimal: r reads as t tenths with
\* t - 1/2 <= 10 * n/d <= t + 1/2 (a value halfway between two tenths may
\* be given as either).
IsRounded(r, n, d) ==
  /\ IsOneDecimalText(r)
  /\ LET t == ParseFloat(r)
     IN (2 * t - 1) * d <= 20 * n /\ 20 * n <= (2 * t + 1) * d

\* The mean over the sessions S of bookedCount/capacity*100 (0 for capacity 0),
\* as numerator and denominator over the product of the capacities.
MeanRatio(S) ==
  LET sized == {i \in S : Capacity[i] > 0}
      all == ProdFn(Capacity, sized)
  IN [n |-> SumFn([i \in sized |-> 100 * BookedCount[i] * (all \div Capacity[i])], sized),
      d |-> all * Cardinality(S)]

\* The sessions are one of capacity 10 with 10 booked and one of capacity 5
\* with none booked, of the same type.
IsAsymmetricCase ==
  /\ Len(workouts) = 2
  /\ TypeLabel(1) = TypeLabel(2)
  /\ \E i, j \in Sessions :
       /\ Capacity[i] = 10 /\ BookedCount[i] = 10
       /\ Capacity[j] = 5 /\ BookedCount[j] = 0

\* C9: per type, avgBookingRate is the mean of the sessions' own ratios
\* bookedCount/capacity*100 (0 for a session of capacity 0) and attendanceRate
\* is sum(bookedCount)/sum(capacity)*100, each rounded to one decimal; for
\* capacities 10 and 5 with 10 and 0 booked they are "66.7" and "50.0".
C9_MeanOfRatiosAndRatioOfSums ==
  Returned =>
    /\ \A k \in 1..Len(report.byType) :
         LET e == report.byType[k]
             S == OfType(e.name)
             mean == MeanRatio(S)
         IN /\ S # {}
            /\ IsRounded(e.avgBookingRate, mean.n, mean.d)
            /\ SumFn(Capacity, S) > 0
                 => IsRounded(e.attendanceRate, 100 * SumFn(BookedCount, S),
                              SumFn(Capacity, S))
    /\ IsAsymmetricCase
         => /\ report.byType[1].attendanceRate.text = <<"6", "6", ".", "7">>
            /\ report.byType[1].avgBookingRate.text = <<"5", "0", ".", "0">>

\* C9 witness: the report of the asymmetric case, whose two fields differ.
C9_Witness ==
  /\ Returned
  /\ IsAsymmetricCase
  /\ Len(report.byType) = 1
  /\ report.byType[1].attendanceRate # report.byType[1].avgBookingRate

\* The user identifier of a booking, if it has one: user_id, else userId,
\* else user.id.
HasIdentifier(b, u) ==
  IF b.user_id # Absent THEN b.user_id[1] = u
  ELSE IF b.userId # Absent THEN b.userId[1] = u
  ELSE b.user # Absent /\ b.user[1].id # Absent /\ b.user[1].id[1] = u

\* The users booked in session i.
Participants(i) ==
  IF workouts[i].bookings = Absent THEN {}
  ELSE {u \in 1..(MaxUser + 2) :
          \E j \in 1..Len(workouts[i].bookings[1]) :
            HasIdentifier(workouts[i].bookings[1][j], u)}

\* C10: summary.uniqueParticipants is the number of distinct user identifiers
\* over the bookings of all sessions (bookings without identifier excluded),
\* and a byType entry's uniqueParticipants the number of distinct user
\* identifiers over the sessions of its type.
C10_UniqueParticipants ==
  Returned =>
    /\ report.summary.uniqueParticipants
         = Cardinality(UNION {Participants(i) : i \in Sessions})
    /\ \A k \in 1..Len(report.byType) :
         report.byType[k].uniqueParticipants
           = Cardinality(UNION {Participants(i) : i \in OfType(report.byType[k].name)})

\* C10 witness: two sessions of different types, user 1 booked in both and a
\* booking without identifier in one: one participant overall and per type.
C10_Witness ==
  /\ Returned
  /\ Len(workouts) = 2
  /\ TypeLabel(1) # TypeLabel(2)
  /\ \A i \in Sessions : 1 \in Participants(i)
  /\ \E i \in Sessions : \E j \in 1..Len(workouts[i].bookings[1]) :
       \A u \in 1..(MaxUser + 2) : ~HasIdentifier(workouts[i].bookings[1][j], u)
  /\ report.summary.uniqueParticipants = 1
  /\ \A k \in 1..2 : report.byType[k].uniqueParticipants = 1

\* rates is in non-increasing order of the numbers parseFloat reads.
NonIncreasing(entries) ==
  \A k \in 1..(Len(entries) - 1) :
    ParseFloat(entries[k].attendanceRate) >= ParseFloat(entries[k + 1].attendanceRate)

\* C11: byType has exactly one entry per distinct type name (a session
\* without type name grouped under "Unknown"), byInstructor exactly one per
\* distinct display name, and both lists are in non-increasing order of the
\* numeric attendanceRate.
C11_OneEntryPerKeySortedByRate ==
  Returned =>
    LET types == report.byType
        people == report.byInstructor
        typeNames == {TypeLabel(i) : i \in Sessions}
        peopleNames == UNION {InstructorNames(i) : i \in Sessions}
    IN /\ Len(types) = Cardinality(typeNames)
       /\ {types[k].name : k \in 1..Len(types)} = typeNames
       /\ Len(people) = Cardinality(peopleNames)
       /\ {people[k].name : k \in 1..Len(people)} = peopleNames
       /\ NonIncreasing(types)
       /\ NonIncreasing(people)

\* C11 witness: the type of the first session has the lower rate and is
\* listed second.
C11_Witness ==
  /\ Returned
  /\ Len(report.byType) = 2
  /\ report.byType[2].name = TypeLabel(1)
  /\ ParseFloat(report.byType[1].attendanceRate)
       > ParseFloat(report.byType[2].attendanceRate)

\* C11 witness for the grouping: two sessions without type name, one with
\* no workoutType at all, share the single entry "Unknown".
C11_WitnessUnknown ==
  /\ Returned
  /\ Len(workouts) = 2
  /\ workouts[1].workoutType # workouts[2].workoutType
  /\ Len(report.byType) = 1
  /\ report.byType[1].name = "Unknown"
  /\ report.byType[1].classes = 2

\* C12: summary.fullyBookedClasses counts exactly the sessions with capacity
\* > 0 and bookedCount >= capacity, summary.emptyClasses exactly the sessions
\* with bookedCount = 0, whatever their capacity.
C12_FullyBookedAndEmpty ==
  Returned =>
    /\ report.summary.fullyBookedClasses
         = Cardinality({i \in Sessions : Capacity[i] > 0 /\ BookedCount[i] >= Capacity[i]})
    /\ report.summary.emptyClasses
         = Cardinality({i \in Sessions : BookedCount[i] = 0})

\* C12 witness: a session with capacity 0 and nothing booked beside an
\* overbooked one: one empty class, one fully booked class.
C12_Witness ==
  /\ Returned
  /\ \E i, j \in Sessions :
       /\ Capacity[i] = 0 /\ BookedCount[i] = 0
       /\ Capacity[j] > 0 /\ BookedCount[j] > Capacity[j]
  /\ Len(workouts) = 2
  /\ report.summary.emptyClasses = 1
  /\ report.summary.fullyBookedClasses = 1

\* The numeric outputs of a report: summary, byDay, byHour and dailyTrend as
\* they are, byType and byInstructor as sets of entries with their name and
\* numeric fields.
NumericOutputs(rep) ==
  [summary |-> rep.summary, byDay |-> rep.byDay, byHour |-> rep.byHour,
   dailyTrend |-> rep.dailyTrend,
   byType |->
     {[name |-> e.name, classes |-> e.classes, totalBooked |-> e.totalBooked,
       totalCapacity |-> e.totalCapacity, avgAttendance |-> e.avgAttendance,
       attendanceRate |-> e.attendanceRate, avgBookingRate |-> e.avgBookingRate,
       uniqueParticipants |-> e.uniqueParticipants] :
        e \in {rep.byType[k] : k \in 1..Len(rep.byType)}},
   byInstructor |->
     {[name |-> e.name, classes |-> e.classes, totalBooked |-> e.totalBooked,
       totalCapacity |-> e.totalCapacity, avgAttendance |-> e.avgAttendance,
       attendanceRate |-> e.attendanceRate] :
        e \in {rep.byInstructor[k] : k \in 1..Len(rep.byInstructor)}}]

\* C13: the numeric outputs of processAnalytics are the same for every
\* permutation of the input sequence.
C13_PermutationInvariant ==
  Returned =>
    \A p \in Permutations(Sessions) :
      NumericOutputs(processAnalytics(Permuted(workouts, p))) = NumericOutputs(report)

IsRate(r, num, den) == den > 0 => IsRounded(r, 100 * num, den)

\* C16: every rate with a positive denominator is numerator/denominator*100
\* rounded to one decimal and written with exactly one digit after the
\* point; 8 of 12 is "66.7" and 10 of 20 is "50.0".
C16_RatesRoundedToOneDecimal ==
  Returned =>
    LET bookedOn(S) == SumFn(BookedCount, S)
        capacityOn(S) == SumFn(Capacity, S)
        onDay(d) == {i \in Sessions : Weekday(i) = d}
        atHour(h) == {i \in Sessions : WrittenHour(i) = h}
        full == {i \in Sessions : Capacity[i] > 0 /\ BookedCount[i] >= Capacity[i]}
        empty == {i \in Sessions : BookedCount[i] = 0}
        overall == report.summary.overallAttendanceRate
    IN /\ IsRate(overall, bookedOn(Sessions), capacityOn(Sessions))
       /\ IsRate(report.summary.fullyBookedRate, Cardinality(full), Len(workouts))
       /\ IsRate(report.summary.emptyRate, Cardinality(empty), Len(workouts))
       /\ \A k \in 1..Len(report.byType) :
            LET e == report.byType[k]
            IN IsRate(e.attendanceRate, bookedOn(OfType(e.name)), capacityOn(OfType(e.name)))
       /\ \A k \in 1..Len(report.byDay) :
            LET e == report.byDay[k]
            IN IsRate(e.attendanceRate, bookedOn(onDay(e.dayIndex)), capacityOn(onDay(e.dayIndex)))
       /\ \A k \in 1..Len(report.byHour) :
            LET e == report.byHour[k]
            IN IsRate(e.attendanceRate, bookedOn(atHour(e.hour)), capacityOn(atHour(e.hour)))
       /\ \A k \in 1..Len(report.byInstructor) :
            LET e == report.byInstructor[k]
            IN IsRate(e.attendanceRate, e.totalBooked, e.totalCapacity)
       /\ \A k \in 1..Len(report.dailyTrend) :
            LET e == report.dailyTrend[k]
            IN IsRate(e.attendanceRate, e.totalBooked, e.totalCapacity)
       /\ (bookedOn(Sessions) = 8 /\ capacityOn(Sessions) = 12)
            => overall.text = <<"6", "6", ".", "7">>
       /\ (bookedOn(Sessions) = 10 /\ capacityOn(Sessions) = 20)
            => overall.text = <<"5", "0", ".", "0">>

\* C16 witness: one class with 8 of 12 booked; the overall rate, the rate of
\* its type, of Monday and of 18:00 are all "66.7".
C16_Witness ==
  /\ Returned
  /\ Len(workouts) = 1
  /\ BookedCount[1] = 8
  /\ Capacity[1] = 12
  /\ report.summary.overallAttendanceRate.text = <<"6", "6", ".", "7">>
  /\ report.byType[1].attendanceRate.text = <<"6", "6", ".", "7">>
  /\ report.byDay[2].attendanceRate.text = <<"6", "6", ".", "7">>
  /\ report.byHour[14].attendanceRate.text = <<"6", "6", ".", "7">>

\* C16 witness for the trailing zero: two classes of capacity 10, one full
\* and one empty, give "50.0".
C16_WitnessTrailingZero ==
  /\ Returned
  /\ Len(workouts) = 2
  /\ \A i \in Sessions : Capacity[i] = 10
  /\ SumFn(BookedCount, Sessions) = 10
  /\ report.summary.overallAttendanceRate.text = <<"5", "0", ".", "0">>

\* C16 witness for a rate halfway between two tenths: 23 of 80 is exactly
\* 28.75; the double 23 / 80 * 100 lies just below it and is written "28.7".
C16_WitnessHalfway ==
  /\ Returned
  /\ Len(workouts) = 1
  /\ BookedCount[1] = 23
  /\ Capacity[1] = 80
  /\ report.summary.overallAttendanceRate.text = <<"2", "8", ".", "7">>

-----------------------------------------------------------------------------
(* Properties of fetchZoeziApi and of the requests                         *)

RECURSIVE FailedRounds(_)
\* What a call did whose first k attempts failed, each followed by its wait
\* of k * 2000 ms.
FailedRounds(k) ==
  IF k = 0 THEN <<>>
  ELSE FailedRounds(k - 1)
         \o <<Event("attempt", k), Event("failed", k), Event("wait", k * 2000)>>

\* The call for upstream i went as the retry loop prescribes: at most 3
\* attempts, one after another; the k-th failure followed by a wait of
\* k * 2000 ms and then the next attempt; a success ends the call at once;
\* the 3rd failure is thrown without a wait.
RetriesWithLinearBackoff(i) ==
  LET f == fetches[i]
      a == f.attempt
  IN /\ a <= 3
     /\ f.state = "idle" => f.log = <<>>
     /\ f.state = "inflight" => f.log = FailedRounds(a - 1) \o <<Event("attempt", a)>>
     /\ f.state = "waiting" => a < 3 /\ f.log = FailedRounds(a)
     /\ f.state = "returned"
          => f.log = FailedRounds(a - 1) \o <<Event("attempt", a), Event("returned", a)>>
     /\ f.state = "threw"
          => f.log = FailedRounds(2)
                       \o <<Event("attempt", 3), Event("failed", 3), Event("threw", 3)>>

\* C17: every call of fetchZoeziApi makes at most 3 attempts one after
\* another, waits k * 2000 ms after the k-th failed attempt, ends with the
\* first success, throws after the 3rd failure without waiting, does nothing
\* once it returned or threw, and always comes to return or throw.
C17_RetriesThenTerminates ==
  /\ [](\A i \in Upstreams : RetriesWithLinearBackoff(i))
  /\ [][\A i \in Upstreams :
          fetches[i].state \in {"returned", "threw"} => fetches'[i] = fetches[i]]_vars
  /\ \A i \in Upstreams :
       (fetches[i].state # "idle") ~> (fetches[i].state \in {"returned", "threw"})

\* C17 witness: the workout call threw after three failures and waits of
\* 2000 and 4000 ms, while the sites call returned at its second attempt.
C17_Witness ==
  /\ fetches[Primary].state = "threw"
  /\ Len(fetches[Primary].log) = 9
  /\ fetches[Primary].log[3] = Event("wait", 2000)
  /\ fetches[Primary].log[6] = Event("wait", 4000)
  /\ fetches[2].state = "returned"
  /\ fetches[2].attempt = 2

\* The request got its response.
Answered == pc = "responded" /\ Len(response) = 1

\* The call for upstream i came to its end.
Ended(i) == fetches[i].state \in {"returned", "threw"}

\* C18: on the analytics routes a secondary call (sites, training card
\* types, training cards) that failed leaves an empty collection and does not
\* decide the response: once the workout call returned, the request is
\* answered with the report (with the error of processAnalytics when that
\* threw) whatever the secondary calls did; once the workout call threw,
\* processAnalytics is never called and the request is answered with an error.
C18_SecondaryFailuresTolerated ==
  request.route # "schedule" =>
    /\ fetches[Primary].state = "threw"
         => /\ result = Absent
            /\ pc \in {"fetching", "responded"}
            /\ pc = "fetching" => ENABLED PromiseAllRejects
            /\ Answered => response[1] = [status |-> 500, body |-> "error"]
    /\ (fetches[Primary].state = "returned" /\ \A i \in Secondaries : Ended(i))
         => /\ pc = "fetching" => ENABLED PromiseAllFulfils
            /\ pc # "fetching"
                 => \A i \in Secondaries :
                      collections[i] = IF fetches[i].state = "threw" THEN "empty" ELSE "fetched"
            /\ Answered
                 => response[1] =
                      IF processAnalytics(OrEmpty(fetches[Primary].value)).threw
                      THEN [status |-> 500, body |-> "error"]
                      ELSE [status |-> 200, body |-> "report"]
    /\ (fetches[Primary].state = "returned" /\ Answered)
         => \A i \in Secondaries : Ended(i)

\* C18 witness: the three secondary calls all threw, the workout call
\* returned a class, and the request was answered with the report.
C18_Witness ==
  /\ request.route = "analytics"
  /\ Answered
  /\ \A i \in Secondaries : fetches[i].state = "threw" /\ collections[i] = "empty"
  /\ Len(workouts) = 1
  /\ response[1].status = 200
  /\ response[1].body = "report"

\* C18 witness for the primary: the workout call threw while a secondary call
\* was still waiting for its timer; the request was answered 500 and
\* processAnalytics was not called.
C18_WitnessPrimary ==
  /\ request.route = "embed"
  /\ Answered
  /\ fetches[Primary].state = "threw"
  /\ fetches[2].state = "waiting"
  /\ response[1].status = 500
  /\ result = Absent

\* C19: on the analytics routes the four calls are started together, before
\* any of them ends, and processAnalytics is called only when all four have
\* ended, the workout call by returning.
C19_AggregatorAfterAllFetches ==
  request.route # "schedule" =>
    /\ \A i, j \in Upstreams : fetches[i].state = "idle" <=> fetches[j].state = "idle"
    /\ (pc \in {"fetched", "done"} \/ result # Absent)
         => /\ \A i \in Upstreams : Ended(i)
            /\ fetches[Primary].state = "returned"
            /\ workouts = fetches[Primary].value[1]

\* C19 witness: processAnalytics was called after the calls ended at
\* different attempts: workouts at the third, sites thrown, card types at the
\* first, cards at the second.
C19_Witness ==
  /\ request.route = "analytics"
  /\ pc = "done"
  /\ result # Absent
  /\ fetches[Primary].state = "returned" /\ fetches[Primary].attempt = 3
  /\ fetches[2].state = "threw"
  /\ fetches[3].state = "returned" /\ fetches[3].attempt = 1
  /\ fetches[4].state = "returned" /\ fetches[4].attempt = 2

\* C20: a request that passed authentication (admin session, or valid token
\* on the embed route) and lacks fromDate or toDate is answered 400, and
\* neither the Supabase lookup nor any Zoezi fetch is made for it.
C20_MissingDateIs400 ==
  (request.authorized /\ (request.fromDate = Absent \/ request.toDate = Absent))
    => /\ lookups = 0
       /\ \A i \in Upstreams : fetches[i] = NotCalled
       /\ pc \in {"received", "authorized", "responded"}
       /\ pc = "authorized" => ENABLED CheckDates
       /\ Answered => response[1] = [status |-> 400, body |-> "error"]

\* C20 witness: a request on the embed route with fromDate and without
\* toDate was answered 400.
C20_Witness ==
  /\ request.route = "embed"
  /\ request.authorized
  /\ request.fromDate = Some(DateText(15))
  /\ request.toDate = Absent
  /\ Answered
  /\ response[1].status = 400
  /\ lookups = 0

-----------------------------------------------------------------------------
(* Properties of the credentials, the embed tokens and the routes          *)

\* The exchange at hand.
Exchanged(routes) == exchange # Absent /\ exchange[1].route \in routes

Status == exchange[1].res.status

TokenRoutes == {"/api/verify-token", "/api/embed/analytics"}

AdminRoutes == {"/api/admin/embed-token", "/api/admin/embed-tokens"}

ProtectedRoutes == {"/api/gyms", "/api/schedule/:clubId", "/api/analytics/:clubId"}

\* The credentials the route of the exchange cannot do without: the admin
\* routes ADMIN_KEY, the login ADMIN_PASSWORD, the token routes EMBED_SECRET,
\* the list of gyms, once the session is let in, SUPABASE_KEY.
Needed ==
  (IF Exchanged(AdminRoutes) THEN {"ADMIN_KEY"} ELSE {})
    \cup (IF Exchanged({"POST /login"}) THEN {"ADMIN_PASSWORD"} ELSE {})
    \cup (IF Exchanged(TokenRoutes) THEN {"EMBED_SECRET"} ELSE {})
    \cup (IF Exchanged({"/api/gyms"}) /\ session.isAdmin = Some(TRUE)
          THEN {"SUPABASE_KEY"} ELSE {})

\* C21: a request on a route that needs a credential which is not configured
\* is answered with a status of the 500 class.
C21_MissingCredentialIs500 ==
  \A c \in Needed : Len(env[c]) = 0 => Status \in 500..599

\* The token of the exchange is a string of three parts; what its parts
\* decode to; whether verifyEmbedToken accepts it now.
SentToken == exchange[1].req.token

ThreeParts ==
  /\ Exchanged(TokenRoutes)
  /\ ~Falsy(SentToken) /\ SentToken[1].type = "string"
  /\ Len(Split(SentToken[1].text)) = 3

ClubPart == BytesToString(Base64UrlDecode(Split(SentToken[1].text)[1]))

TimestampPart == BytesToString(Base64UrlDecode(Split(SentToken[1].text)[2]))

SignaturePart == Split(SentToken[1].text)[3]

Accepted ==
  /\ Exchanged(TokenRoutes)
  /\ verifyEmbedToken(env.EMBED_SECRET, SentToken, clock) = Valid(ClubPart)

\* C22: a token that carries the signature of a token handed out for club A
\* and is accepted has A as the club ID its first part decodes to.
C22_ClubIdCannotBeChanged ==
  ThreeParts /\ Accepted =>
    \A t \in issued : SignaturePart = Split(t.token)[3] => ClubPart = t.clubId

\* The timestamp part writes a time, and one at most 365 days before now.
WithinOneYear ==
  /\ Len(TimestampPart) > 0 /\ AllDigits(TimestampPart)
  /\ ~BigLess(BigAdd(BigOfDigits(TimestampPart), maxAge), clock)

CorrectlySigned ==
  SignaturePart = SignatureOf(env.EMBED_SECRET, Payload(ClubPart, TimestampPart))

\* C23: an accepted token has a timestamp part that writes a time at most 365
\* days before the verification, and a correctly signed token of an older
\* time is refused with 'Token expired'.
C23_ExpiresAfterOneYear ==
  ThreeParts /\ Len(env.EMBED_SECRET) > 0 =>
    /\ Accepted => WithinOneYear
    /\ CorrectlySigned /\ Len(TimestampPart) > 0 /\ AllDigits(TimestampPart)
         /\ ~WithinOneYear
         => verifyEmbedToken(env.EMBED_SECRET, SentToken, clock) = Invalid("Token expired")

\* A token handed out is refused as expired once it is older than 365 days.
IssuedTokenExpires ==
  ThreeParts /\ (\E t \in issued : t.token = SentToken[1].text) =>
    (Accepted <=> WithinOneYear)

PagePaths == {"/", "/dashboard"}

\* The protected route did nothing for the request but refuse it.
Refused401 ==
  /\ Status = 401
  /\ exchange[1].res.lookup = Absent
  /\ exchange[1].res.fetched = Absent
  /\ exchange[1].res.data = Absent

HasValidToken == hasValidEmbedToken(env, exchange[1].req, clock) = "yes"

\* C24: the three protected routes look up and return data only for a
\* session with isAdmin, and answer 401 without a lookup otherwise; the
\* dashboard page is served only to a session with isAdmin or a request with
\* a valid embed token, and every other page request is redirected to /login.
C24_ProtectedRoutesNeedAdmin ==
  /\ Exchanged(ProtectedRoutes) /\ session.isAdmin # Some(TRUE) => Refused401
  /\ Exchanged(PagePaths) =>
       IF session.isAdmin = Some(TRUE) \/ HasValidToken
       THEN exchange[1].res.sent \in {"index.html", "error"}
       ELSE exchange[1].res = Redirect("/login")

\* No page or data goes out to a request without admin session or valid token.
NothingServedUnauthorized ==
  /\ Exchanged(ProtectedRoutes) /\ session.isAdmin # Some(TRUE) => Refused401
  /\ Exchanged(PagePaths) /\ exchange[1].res.sent = "index.html" =>
       session.isAdmin = Some(TRUE) \/ HasValidToken

\* C25: on the admin routes a token is generated only for a request whose
\* X-Admin-Key header equals the configured ADMIN_KEY, and a request without
\* the header is answered 401.
C25_AdminRoutesNeedHeader ==
  Exchanged(AdminRoutes) =>
    /\ Status = 200 =>
         Len(env.ADMIN_KEY) > 0 /\ exchange[1].req.header = Text(env.ADMIN_KEY)
    /\ exchange[1].req.header = Absent => Status = 401

\* C26: the embed route fetches and returns the data of the club ID of a
\* token that verifyEmbedToken accepts, whatever else the request carries,
\* and answers a request with an invalid token 401 without lookup or fetch.
C26_EmbedServesTokenClub ==
  Exchanged({"/api/embed/analytics"}) =>
    LET tokenResult == verifyEmbedToken(env.EMBED_SECRET, SentToken, clock)
        res == exchange[1].res
    IN IF tokenResult.valid
       THEN \A club \in {res.lookup, res.fetched, res.data} :
              club \in {Absent, Some(tokenResult.clubId)}
       ELSE Refused401

\* What the embed route does for an accepted token is the token's club's.
EmbedServesOnlyTokenClub ==
  Exchanged({"/api/embed/analytics"}) =>
    LET tokenResult == verifyEmbedToken(env.EMBED_SECRET, SentToken, clock)
        res == exchange[1].res
    IN /\ \A club \in {res.lookup, res.fetched, res.data} :
            club # Absent => tokenResult.valid /\ club = Some(tokenResult.clubId)
       /\ ~tokenResult.valid => Status \in {401, 500}

\* Club IDs to issue tokens for: those of the table, one outside it, the
\* empty one, and ones of dots.
ClubStrings ==
  ClubIds \cup {NoClub, <<>>, <<".">>, <<".", "7">>, <<"7", ".", ".", "x">>}

\* A millisecond less than 365 days.
AlmostOneYear == BigOfDigits(<<"3", "1", "5", "3", "5", "9", "9", "9", "9", "9", "9">>)

\* C27: with EMBED_SECRET configured, the token generated for a club ID has
\* three parts and is verified, less than one year later, as valid with
\* that club ID; so is on the token routes every token handed out. (The
\* first part reads the secret and the time only: it is evaluated at every
\* time and secret, between two requests.)
C27_RoundTrip ==
  /\ exchange = Absent /\ Len(env.EMBED_SECRET) > 0 =>
       \A c \in ClubStrings :
         LET token == generateEmbedToken(env.EMBED_SECRET, c, clock)[1]
         IN /\ Len(Split(token)) = 3
            /\ \A later \in {clock, BigAdd(clock, BigOf(1)), BigAdd(clock, AlmostOneYear)} :
                 verifyEmbedToken(env.EMBED_SECRET, Text(token), later) = Valid(c)
  /\ ThreeParts =>
       \A t \in issued :
         t.token = SentToken[1].text /\ BigLess(clock, BigAdd(t.at, maxAge))
           => Accepted /\ ClubPart = t.clubId

C27_Witness ==
  /\ ThreeParts /\ Accepted /\ Status = 200
  /\ \E t \in issued :
       /\ t.token = SentToken[1].text /\ t.clubId = <<"7", ".", "x">>
       /\ BigLess(t.at, clock)

\* C28: verifyEmbedToken returns for every value of the token parameter and
\* never throws.
C28_VerifyNeverThrows ==
  Exchanged(TokenRoutes \cup PagePaths) /\ ~Falsy(SentToken) =>
    ~verifyEmbedToken(env.EMBED_SECRET, SentToken, clock).threw

\* The password of the login request is the configured one, byte for byte.
RightPassword(x) ==
  /\ Len(env.ADMIN_PASSWORD) > 0
  /\ x.req.password # Absent
  /\ x.req.password[1].type \in {"string", "array"}
  /\ x.req.password[1].text = env.ADMIN_PASSWORD

\* The request is one for the protected routes or, without token, for a page.
AsksProtected(x) ==
  \/ x.route \in ProtectedRoutes
  \/ x.route \in PagePaths /\ x.req.token = Absent

Turned(x) ==
  IF x.route \in ProtectedRoutes
  THEN x.res = Sent(401, "error") ELSE x.res = Redirect("/login")

\* isAdmin comes to be set only in a POST /login with the configured,
\* non-empty password; a logout leaves it unset; and while it is unset a
\* protected request is refused.
SessionStep ==
  /\ session'.isAdmin = Some(TRUE) /\ session.isAdmin # Some(TRUE) =>
       /\ exchange' # Absent /\ exchange'[1].route = "POST /login"
       /\ RightPassword(exchange'[1])
  /\ exchange = Absent /\ exchange' # Absent =>
       /\ exchange'[1].route = "/logout" => session'.isAdmin = Absent
       /\ session.isAdmin # Some(TRUE) /\ AsksProtected(exchange'[1])
            => Turned(exchange'[1])

C29_WitnessRefused ==
  /\ Exchanged(ProtectedRoutes)
  /\ session = NoSession
  /\ Refused401

-----------------------------------------------------------------------------
(* The buckets of the report against its summary                           *)

\* The sum of a field over the entries of a list of the report.
Total(entries, field) ==
  SumFn([k \in 1..Len(entries) |-> entries[k][field]], 1..Len(entries))

\* The sessions that start at the hours byHour lists.
InListedHours == {i \in Sessions : WrittenHour(i) \in FirstHour..LastHour}

\* C30: when every startTime is parseable, the classes of byType, of byDay and
\* of dailyTrend each add up to summary.totalClasses, totalBooked and
\* totalCapacity of byType and of dailyTrend add up to the summary's totals,
\* and the classes of byHour add up to the number of sessions that start at
\* the hours 5..22: a session at another hour is in the summary only.
C30_BucketTotals ==
  Returned /\ (\A i \in Sessions : Parseable(i)) =>
    /\ \A list \in {report.byType, report.byDay, report.dailyTrend} :
         Total(list, "classes") = report.summary.totalClasses
    /\ \A list \in {report.byType, report.dailyTrend} :
         /\ Total(list, "totalBooked") = report.summary.totalBooked
         /\ Total(list, "totalCapacity") = report.summary.totalCapacity
    /\ Total(report.byHour, "classes") = Cardinality(InListedHours)

\* C30 witness: a report over two sessions of one date, one at 22:00 and
\* one at 23:00, both booked: the summary counts two classes, byHour one.
C30_Witness ==
  /\ Returned
  /\ Len(workouts) = 2
  /\ \A i \in Sessions : Parseable(i)
  /\ WrittenDate(1) = WrittenDate(2)
  /\ {WrittenHour(i) : i \in Sessions} = {22, 23}
  /\ report.summary.totalClasses = 2
  /\ report.summary.totalBooked > 0
  /\ Len(report.dailyTrend) = 1
  /\ Total(report.byHour, "classes") = 1

====
